---- MODULE Spec2Model ----
(***************************************************************************)
(* A model of vscode-sops-fs: the per-document engine SopsFs               *)
(* (src/src/sopsfs.ts), which projects one SOPS-encrypted document as a    *)
(* file tree.  The external sops executable is modelled by what its four   *)
(* call shapes do to a document (decrypt, decrypt to JSON, --set, editor   *)
(* re-encryption); everything else is translated from the TypeScript.      *)
(***************************************************************************)
EXTENDS Integers, Sequences, FiniteSets, TLC

(***************************************************************************)
(* Bounds of the model.                                                    *)
(***************************************************************************)
\* mutating calls made and changes from outside, together, in one behaviour
MaxMutations == 1
\* the calls made on the provider
MaxCalls == 2

(***************************************************************************)
(* JSON values.  Every value is a record of the same shape: t the kind,    *)
(* s the text of a string (a sequence of code points) or the digits of a   *)
(* number, m the members of an object or the elements of an array (an      *)
(* element has the key "").                                                *)
(***************************************************************************)
Val(t, s, m) == [t |-> t, s |-> s, m |-> m]
Undefined == Val("undef", <<>>, <<>>)
JNull == Val("null", <<>>, <<>>)
JStr(text) == Val("str", text, <<>>)
JNum(n) == Val("num", <<n>>, <<>>)
JObj(members) == Val("obj", <<>>, members)
JArr(elems) == Val("arr", <<>>, elems)
Mem(k, v) == [k |-> k, v |-> v]

\* "vscode-sops-fs__deleted__ba2bfdb5-...": the sentinel text, one reserved
\* symbol that no byte sequence decodes to
DELETED_MARKER == <<-1>>

SopsFormat == {".json", ".yaml", ".ini", ".env", ".sops"}

\* the file name of a document is its sequence of dot-separated parts, the
\* extensions with their dot: "s.json" is <<"s", ".json">>
extname(name) == IF Len(name) > 1 THEN name[Len(name)] ELSE ""

\* path.basename(p, ".sops"): the name without a final ".sops"
basenameSops(name) ==
    IF Len(name) > 1 /\ name[Len(name)] = ".sops"
    THEN SubSeq(name, 1, Len(name) - 1) ELSE name

pathToFormat(name) ==
    LET ext == extname(name) IN
    CASE ext = ".json" -> ".json"
      [] ext \in {".yaml", ".yml"} -> ".yaml"
      [] ext = ".ini" -> ".ini"
      [] ext = ".env" -> ".env"
      [] OTHER -> ".sops"

dataFilenameOf(name) == "__sopsfs__" \o extname(basenameSops(name))

(***************************************************************************)
(* Buffer.toString() and Buffer.from(string): UTF-8, an invalid byte       *)
(* decoding to U+FFFD.  Bytes are 0..255; the model draws them from ASCII, *)
(* two- and three-byte sequences and bytes that start no sequence.         *)
(***************************************************************************)
RECURSIVE Utf8Decode(_)
Utf8Decode(bytes) ==
    IF bytes = <<>> THEN <<>>
    ELSE LET b == Head(bytes)
             n == Len(bytes)
             cont(i) == i <= n /\ bytes[i] \in 128..191
         IN IF b < 128 THEN <<b>> \o Utf8Decode(Tail(bytes))
            ELSE IF b \in 194..223 /\ cont(2)
            THEN <<(b - 192) * 64 + (bytes[2] - 128)>>
                 \o Utf8Decode(SubSeq(bytes, 3, n))
            ELSE IF b \in 225..239 /\ cont(2) /\ cont(3)
            THEN <<(b - 224) * 4096 + (bytes[2] - 128) * 64 + (bytes[3] - 128)>>
                 \o Utf8Decode(SubSeq(bytes, 4, n))
            ELSE <<65533>> \o Utf8Decode(Tail(bytes))

RECURSIVE Utf8Encode(_)
Utf8Encode(text) ==
    IF text = <<>> THEN <<>>
    ELSE LET c == Head(text) IN
         (IF c < 0 THEN <<c>>
          ELSE IF c < 128 THEN <<c>>
          ELSE IF c < 2048 THEN <<192 + (c \div 64), 128 + (c % 64)>>
          ELSE <<224 + (c \div 4096), 128 + ((c \div 64) % 64), 128 + (c % 64)>>)
         \o Utf8Encode(Tail(text))

\* Number.prototype.toString of an integer, as code points
RECURSIVE Digits(_)
Digits(n) == IF n < 10 THEN <<48 + n>> ELSE Digits(n \div 10) \o <<48 + (n % 10)>>
NumText(n) == IF n < 0 THEN <<45>> \o Digits(0 - n) ELSE Digits(n)

\* val.toString() of a tree value that is no object, array or null
ValueText(v) == IF v.t = "num" THEN NumText(v.s[1]) ELSE v.s

(***************************************************************************)
(* Path segments are strings.  parseInt over the segments the model uses;  *)
(* nan marks NaN.                                                          *)
(***************************************************************************)
ParseInt(key) ==
    CASE key = "0" -> [nan |-> FALSE, n |-> 0]
      [] key = "1" -> [nan |-> FALSE, n |-> 1]
      [] key = "2" -> [nan |-> FALSE, n |-> 2]
      [] key = "3" -> [nan |-> FALSE, n |-> 3]
      [] key = "01" -> [nan |-> FALSE, n |-> 1]
      [] key = "-1" -> [nan |-> FALSE, n |-> -1]
      [] key = "1.0" -> [nan |-> FALSE, n |-> 1]
      [] key = "-0" -> [nan |-> FALSE, n |-> 0]
      [] key = "10" -> [nan |-> FALSE, n |-> 10]
      [] key = "+1" -> [nan |-> FALSE, n |-> 1]
      [] key = " 1" -> [nan |-> FALSE, n |-> 1]
      [] OTHER -> [nan |-> TRUE, n |-> 0]

\* intKey.toString() === key
IsCanonicalInt(key) == ~ParseInt(key).nan /\ ToString(ParseInt(key).n) = key

\* the index of the member of an object with key k, 0 when there is none
MemberIndex(members, k) ==
    IF \E i \in 1..Len(members) : members[i].k = k
    THEN CHOOSE i \in 1..Len(members) : members[i].k = k
    ELSE 0

\* object-path's getShallowProperty after getKey: obj[prop] for an own property
getShallowProperty(obj, key) ==
    CASE obj.t = "obj" ->
           IF MemberIndex(obj.m, key) = 0 THEN Undefined
           ELSE obj.m[MemberIndex(obj.m, key)].v
      [] obj.t = "arr" ->
           IF IsCanonicalInt(key) /\ ParseInt(key).n \in 0..(Len(obj.m) - 1)
           THEN obj.m[ParseInt(key).n + 1].v
           ELSE IF key = "length" THEN JNum(Len(obj.m))
           ELSE Undefined
      [] obj.t = "str" ->
           IF IsCanonicalInt(key) /\ ParseInt(key).n \in 0..(Len(obj.s) - 1)
           THEN JStr(<<obj.s[ParseInt(key).n + 1]>>)
           ELSE IF key = "length" THEN JNum(Len(obj.s))
           ELSE Undefined
      [] OTHER -> Undefined

\* objectPath.get(obj, path)
RECURSIVE objectPathGet(_, _)
objectPathGet(obj, path) ==
    IF path = <<>> THEN obj
    ELSE IF obj.t \in {"null", "undef"} THEN Undefined
    ELSE LET nextObj == getShallowProperty(obj, Head(path)) IN
         IF nextObj = Undefined THEN Undefined
         ELSE IF Len(path) = 1 THEN nextObj
         ELSE objectPathGet(nextObj, Tail(path))

treeValueToType(value) ==
    IF value.t \in {"obj", "arr"} THEN "Directory" ELSE "File"

\* Object.entries(val) of an object or array, each with its type
EntriesOf(val) ==
    [i \in 1..Len(val.m) |->
        <<IF val.t = "arr" THEN ToString(i - 1) ELSE val.m[i].k,
          treeValueToType(val.m[i].v)>>]

(***************************************************************************)
(* pathToSopsSetPath: the --set expression, one component per segment.     *)
(* A component is [idx, key, n]: the index [n] when idx, else ["key"].     *)
(***************************************************************************)
SetKey(key) == [idx |-> FALSE, key |-> key, n |-> 0]
SetIdx(n) == [idx |-> TRUE, key |-> "", n |-> n]

\* SetPathComponent without idx.toString() === key: C23 must fail with it
SetPathComponentAnyInt(path, object, i) ==
    LET key == path[i]
        parent == objectPathGet(object, SubSeq(path, 1, i - 1))
    IN IF parent.t = "arr"
       THEN IF ~ParseInt(key).nan /\ ParseInt(key).n >= 0
            THEN [ok |-> TRUE, c |-> SetIdx(ParseInt(key).n)]
            ELSE [ok |-> FALSE, c |-> SetKey(key)]
       ELSE [ok |-> TRUE, c |-> SetKey(key)]

\* the component of segment i, given the object the path is walked against
SetPathComponent(path, object, i) ==
    LET key == path[i]
        parent == objectPathGet(object, SubSeq(path, 1, i - 1))
    IN IF parent.t = "arr"
       THEN IF ~ParseInt(key).nan /\ ParseInt(key).n >= 0 /\ IsCanonicalInt(key)
            THEN [ok |-> TRUE, c |-> SetIdx(ParseInt(key).n)]
            ELSE [ok |-> FALSE, c |-> SetKey(key)]
       ELSE [ok |-> TRUE, c |-> SetKey(key)]

\* ok is FALSE for the '"{0}" is not a valid array index' error
pathToSopsSetPath(path, object) ==
    [ok |-> \A i \in 1..Len(path) : SetPathComponent(path, object, i).ok,
     p |-> [i \in 1..Len(path) |-> SetPathComponent(path, object, i).c]]

(***************************************************************************)
(* Decrypted text.  JSON text is its sequence of tokens (white space       *)
(* between tokens left out); the text of the other structured formats is   *)
(* its sequence of lines.                                                  *)
(***************************************************************************)
Tok(k, s, x) == [k |-> k, s |-> s, x |-> x]
Punct(k) == Tok(k, "", <<>>)
KeyTok(key) == Tok("key", key, <<>>)
MarkerTok == Tok("str", "", DELETED_MARKER)

RECURSIVE RenderJson(_)
RECURSIVE RenderJsonItems(_, _)
RenderJson(v) ==
    CASE v.t = "obj" -> <<Punct("{")>> \o RenderJsonItems(v.m, TRUE) \o <<Punct("}")>>
      [] v.t = "arr" -> <<Punct("[")>> \o RenderJsonItems(v.m, FALSE) \o <<Punct("]")>>
      [] v.t = "str" -> <<Tok("str", "", v.s)>>
      [] v.t = "num" -> <<Tok("num", "", v.s)>>
      [] OTHER -> <<Punct("null")>>
RenderJsonItems(items, keyed) ==
    IF items = <<>> THEN <<>>
    ELSE (IF keyed THEN <<KeyTok(Head(items).k), Punct(":")>> ELSE <<>>)
         \o RenderJson(Head(items).v)
         \o (IF Len(items) > 1 THEN <<Punct(",")>> ELSE <<>>)
         \o RenderJsonItems(Tail(items), keyed)

\* JSON.parse's rule for a repeated key: the last value, at the first place
PutMember(members, k, v) ==
    IF MemberIndex(members, k) = 0 THEN Append(members, Mem(k, v))
    ELSE [members EXCEPT ![MemberIndex(members, k)].v = v]

ParseFail == [ok |-> FALSE, v |-> Undefined, rest |-> <<>>]
ParseOk(v, rest) == [ok |-> TRUE, v |-> v, rest |-> rest]

\* a JSON value at the head of toks, and the tokens after it
RECURSIVE ParseJsonValue(_)
RECURSIVE ParseJsonMembers(_, _)
RECURSIVE ParseJsonElems(_, _)
ParseJsonValue(toks) ==
    IF toks = <<>> THEN ParseFail
    ELSE LET h == Head(toks)
             r == Tail(toks)
         IN CASE h.k = "str" -> ParseOk(JStr(h.x), r)
              [] h.k = "num" -> ParseOk(Val("num", h.x, <<>>), r)
              [] h.k = "null" -> ParseOk(JNull, r)
              [] h.k = "{" ->
                   IF r # <<>> /\ Head(r).k = "}" THEN ParseOk(JObj(<<>>), Tail(r))
                   ELSE ParseJsonMembers(r, <<>>)
              [] h.k = "[" ->
                   IF r # <<>> /\ Head(r).k = "]" THEN ParseOk(JArr(<<>>), Tail(r))
                   ELSE ParseJsonElems(r, <<>>)
              [] OTHER -> ParseFail
ParseJsonMembers(toks, acc) ==
    IF Len(toks) < 3 \/ toks[1].k # "key" \/ toks[2].k # ":" THEN ParseFail
    ELSE LET pv == ParseJsonValue(SubSeq(toks, 3, Len(toks))) IN
         IF ~pv.ok \/ pv.rest = <<>> THEN ParseFail
         ELSE IF Head(pv.rest).k = "}"
         THEN ParseOk(JObj(PutMember(acc, toks[1].s, pv.v)), Tail(pv.rest))
         ELSE IF Head(pv.rest).k = ","
         THEN ParseJsonMembers(Tail(pv.rest), PutMember(acc, toks[1].s, pv.v))
         ELSE ParseFail
ParseJsonElems(toks, acc) ==
    LET pv == ParseJsonValue(toks) IN
    IF ~pv.ok \/ pv.rest = <<>> THEN ParseFail
    ELSE IF Head(pv.rest).k = "]"
    THEN ParseOk(JArr(Append(acc, Mem("", pv.v))), Tail(pv.rest))
    ELSE IF Head(pv.rest).k = ","
    THEN ParseJsonElems(Tail(pv.rest), Append(acc, Mem("", pv.v)))
    ELSE ParseFail

\* a whole JSON document: one object and nothing after it
ParseJsonDoc(toks) ==
    LET pv == ParseJsonValue(toks) IN
    IF pv.ok /\ pv.rest = <<>> /\ pv.v.t = "obj" THEN pv ELSE ParseFail

\* a line of block text: key at depth d, then a scalar ("scalar"), an empty
\* object ("empty"), or nothing, the entries following one level deeper ("open")
Line(d, key, kind, v) == [d |-> d, key |-> key, kind |-> kind, v |-> v]

RECURSIVE RenderBlock(_, _)
RenderBlock(items, d) ==
    IF items = <<>> THEN <<>>
    ELSE LET k == Head(items).k
             v == Head(items).v
         IN (IF v.t \in {"obj", "arr"}
             THEN IF v.m = <<>> THEN <<Line(d, k, "empty", v)>>
                  ELSE <<Line(d, k, "open", JNull)>> \o RenderBlock(v.m, d + 1)
             ELSE <<Line(d, k, "scalar", v)>>)
            \o RenderBlock(Tail(items), d)

\* the entries at depth d at the head of lines; a key whose entries are all
\* gone reads as null
RECURSIVE ParseBlock(_, _, _)
ParseBlock(lines, d, acc) ==
    IF lines = <<>> \/ Head(lines).d < d THEN ParseOk(JObj(acc), lines)
    ELSE IF Head(lines).d > d THEN ParseFail
    ELSE LET h == Head(lines) IN
         IF h.kind = "open"
         THEN LET sub == ParseBlock(Tail(lines), d + 1, <<>>) IN
              IF ~sub.ok THEN ParseFail
              ELSE ParseBlock(sub.rest, d,
                     PutMember(acc, h.key, IF sub.v.m = <<>> THEN JNull ELSE sub.v))
         ELSE ParseBlock(Tail(lines), d, PutMember(acc, h.key, h.v))

ParseBlockDoc(lines) == ParseBlock(lines, 0, <<>>)

(***************************************************************************)
(* deleteMarker.  For JSON the regular expression                          *)
(*   (,)?(\s*"[^"]+"\s*:)?\s*"MARKER"\s*(,)?                               *)
(* replaced globally: the leftmost match at each place, both commas        *)
(* collapsing to one.  For the other formats every line holding the marker *)
(* is removed.                                                             *)
(***************************************************************************)
\* the tokens the expression matches at the head of toks before the optional
\* last comma, 0 when it does not match there
MarkerMatchLen(toks) ==
    LET n == Len(toks)
        isM(i) == i <= n /\ toks[i] = MarkerTok
        isKey(i) == i + 1 <= n /\ toks[i].k = "key" /\ toks[i].s # ""
                    /\ toks[i + 1].k = ":"
    IN IF toks[1].k = "," /\ isKey(2) /\ isM(4) THEN 4
       ELSE IF toks[1].k = "," /\ isM(2) THEN 2
       ELSE IF isKey(1) /\ isM(3) THEN 3
       ELSE IF isM(1) THEN 1
       ELSE 0

\* deleteMarkerJson that strips nothing: what C6 says of a delete must fail with it
deleteMarkerJsonKeeping(toks) == toks

RECURSIVE deleteMarkerJson(_)
deleteMarkerJson(toks) ==
    IF toks = <<>> THEN <<>>
    ELSE LET n == Len(toks)
             len == MarkerMatchLen(toks)
             c1 == toks[1].k = ","
             c2 == len + 1 <= n /\ toks[len + 1].k = ","
         IN IF len = 0 THEN <<Head(toks)>> \o deleteMarkerJson(Tail(toks))
            ELSE (IF c1 /\ c2 THEN <<Punct(",")>> ELSE <<>>)
                 \o deleteMarkerJson(SubSeq(toks, len + (IF c2 THEN 2 ELSE 1), n))

HoldsMarker(line) ==
    line.v.t = "str" /\ \E i \in 1..Len(line.v.s) : line.v.s[i] = DELETED_MARKER[1]

deleteMarkerLines(lines) == SelectSeq(lines, LAMBDA l : ~HoldsMarker(l))

\* ok is FALSE for the "unhandled format" error
deleteMarker(format, content) ==
    IF format = ".sops" THEN [ok |-> FALSE, out |-> content]
    ELSE IF format = ".json" THEN [ok |-> TRUE, out |-> deleteMarkerJson(content)]
    ELSE [ok |-> TRUE, out |-> deleteMarkerLines(content)]

(***************************************************************************)
(* The sops executable.  A document file is [exists, good, tree, bin,      *)
(* rev]: good when sops can decrypt it, tree its content (structured       *)
(* formats), bin its content (binary format), rev the number of times the  *)
(* file was written, which stands for its encrypted bytes and its mtime.   *)
(***************************************************************************)
DocFile(exists, good, tree, bin, rev) ==
    [exists |-> exists, good |-> good, tree |-> tree, bin |-> bin, rev |-> rev]

\* sops --decrypt FILE: the plain text in the document's own format
SopsDecryptRaw(format, doc) ==
    CASE format = ".sops" -> doc.bin
      [] format = ".json" -> RenderJson(doc.tree)
      [] OTHER -> RenderBlock(doc.tree.m, 0)

\* sops --output-type json --decrypt FILE, then JSON.parse
SopsDecryptJson(doc) == doc.tree

RECURSIVE valueFromPathAndLeaf(_, _)
valueFromPathAndLeaf(sp, value) ==
    LET inner == IF Len(sp) = 1 THEN value
                 ELSE valueFromPathAndLeaf(Tail(sp), value)
    IN IF Head(sp).idx THEN JArr(<<Mem("", inner)>>)
       ELSE JObj(<<Mem(Head(sp).key, inner)>>)

\* the tree with value at set path sp: missing keys are added, a scalar on
\* the way is replaced; Undefined when sops fails (a key into an array, an
\* index past the end of one)
RECURSIVE SetIn(_, _, _)
SetIn(branch, sp, value) ==
    LET h == Head(sp)
        last == Len(sp) = 1
    IN CASE branch.t = "obj" ->
              LET key == IF h.idx THEN ToString(h.n) ELSE h.key
                  i == MemberIndex(branch.m, key)
              IN IF i = 0
                 THEN JObj(Append(branch.m,
                        Mem(key, IF last THEN value
                                 ELSE valueFromPathAndLeaf(Tail(sp), value))))
                 ELSE LET nv == IF last THEN value
                                ELSE SetIn(branch.m[i].v, Tail(sp), value)
                      IN IF nv = Undefined THEN Undefined
                         ELSE JObj([branch.m EXCEPT ![i].v = nv])
         [] branch.t = "arr" ->
              IF ~h.idx \/ h.n > Len(branch.m) THEN Undefined
              ELSE IF h.n = Len(branch.m)
              THEN JArr(Append(branch.m,
                     Mem("", IF last THEN value
                             ELSE valueFromPathAndLeaf(Tail(sp), value))))
              ELSE LET nv == IF last THEN value
                             ELSE SetIn(branch.m[h.n + 1].v, Tail(sp), value)
                   IN IF nv = Undefined THEN Undefined
                      ELSE JArr([branch.m EXCEPT ![h.n + 1].v = nv])
         [] OTHER -> valueFromPathAndLeaf(sp, value)

\* sops --set 'PATH VALUE' FILE, in place; ok is FALSE when sops exits with
\* an error (no path, a file it cannot decrypt)
SopsSet(doc, sp, value) ==
    IF ~doc.good \/ sp = <<>> \/ doc.tree.t = "null"
       \/ SetIn(doc.tree, sp, value) = Undefined
    THEN [ok |-> FALSE, doc |-> doc]
    ELSE [ok |-> TRUE, doc |-> [doc EXCEPT !.tree = SetIn(doc.tree, sp, value)]]

\* sops FILE with EDITOR="cp CONTENT": the plain text replaced by content
\* and encrypted again.  code 0: done; 200: the text is the one the file
\* held (FileHasNotBeenModified); 1: any other failure.
SopsEdit(format, doc, content) ==
    IF ~doc.good THEN [code |-> 1, doc |-> doc]
    ELSE IF content = SopsDecryptRaw(format, doc) THEN [code |-> 200, doc |-> doc]
    ELSE IF format = ".sops" THEN [code |-> 0, doc |-> [doc EXCEPT !.bin = content]]
    ELSE LET parsed == IF format = ".json" THEN ParseJsonDoc(content)
                       ELSE ParseBlockDoc(content)
         IN IF parsed.ok THEN [code |-> 0, doc |-> [doc EXCEPT !.tree = parsed.v]]
            ELSE [code |-> 1, doc |-> doc]

(***************************************************************************)
(* getTreeNode, without its await of the snapshot.  A snapshot is          *)
(* [stat, raw, tree], tree null for the binary format.                     *)
(***************************************************************************)
Snapshot(stat, raw, tree) == [stat |-> stat, raw |-> raw, tree |-> tree]

isDataFile(path, dataFilename) ==
    Len(path) = 1 /\ dataFilename # "" /\ dataFilename = path[1]

NodeErr(e) ==
    [ok |-> FALSE, err |-> e, type |-> "", size |-> 0, entries |-> <<>>,
     value |-> <<>>]
NodeDir(entries) ==
    [ok |-> TRUE, err |-> "", type |-> "Directory", size |-> Len(entries),
     entries |-> entries, value |-> <<>>]
NodeFile(value) ==
    [ok |-> TRUE, err |-> "", type |-> "File", size |-> Len(value),
     entries |-> <<>>, value |-> value]

\* ValueNode that leaves the raw-data entry out of the root: C11 must fail with it
ValueNodeUnprefixed(val, atRoot, dataFilename) ==
    IF val = Undefined THEN NodeErr("FileNotFound")
    ELSE IF val.t = "null" THEN NodeErr("TypeError")
    ELSE IF treeValueToType(val) = "Directory" THEN NodeDir(EntriesOf(val))
    ELSE IF atRoot THEN NodeErr("unreachable")
    ELSE NodeFile(Utf8Encode(ValueText(val)))

\* the node of val, what objectPath.get found at path; atRoot: path is empty
ValueNode(val, atRoot, dataFilename) ==
    IF val = Undefined THEN NodeErr("FileNotFound")
    ELSE IF val.t = "null" THEN NodeErr("TypeError")
    ELSE IF treeValueToType(val) = "Directory"
    THEN NodeDir((IF atRoot THEN <<<<dataFilename, "File">>>> ELSE <<>>)
                 \o EntriesOf(val))
    ELSE IF atRoot THEN NodeErr("unreachable")
    ELSE NodeFile(Utf8Encode(ValueText(val)))

getTreeNodeOf(snap, path, dataFilename) ==
    IF isDataFile(path, dataFilename) THEN NodeFile(snap.raw)
    ELSE IF snap.tree.t # "null"
    THEN ValueNode(objectPathGet(snap.tree, path),
                   Len(path) = 0 /\ dataFilename # "", dataFilename)
    ELSE IF Len(path) = 0 /\ dataFilename # ""
    THEN NodeDir(<<<<dataFilename, "File">>>>)
    ELSE NodeErr("FileNotFound")

(***************************************************************************)
(* The engine: one SopsFs and the calls made on it.                        *)
(***************************************************************************)
VARIABLES
    sopsName,      \* file name of sopsUri; sopsFormat and dataFilename follow from it
    stable,        \* the stable encrypted document at sopsUri
    cachedTree,    \* this.cachedTree, NoSnap for null
    fileChanges,   \* this.fileChanges
    timer,         \* the throttle of emitChanged has its timer running
    emitted,       \* the batch onDidChangeEmitter is firing, <<>> when none
    watcher,       \* this.watcher is set
    watchPending,  \* the watcher saw the file change and has not called back yet
    call,          \* per call slot: the call in flight, or the one returning
    last,          \* the last call that overwrote the stable document
    spent,         \* mutating calls made and changes from outside so far
    burst,         \* invalidateTreeCache calls the pending or firing batch answers:
                   \* "none", "one" or "several"
    registry       \* the SopsFsProvider over the engines, Standalone when the
                   \* engine is used on its own

vars == <<sopsName, stable, cachedTree, fileChanges, timer, emitted, watcher,
          watchPending, call, last, spent, burst, registry>>

\* no provider: the calls are made on the engine itself
Standalone == "standalone"

\* burst after one more call of the throttled emitChanged
Another(b) == IF b = "none" THEN "one" ELSE "several"

sopsFormat == pathToFormat(sopsName)
dataFilename == dataFilenameOf(sopsName)

NoSnap == Snapshot(-1, <<>>, Undefined)
NoDoc == DocFile(FALSE, FALSE, Undefined, <<>>, 0)

Calls == {1, 2}

\* a change event; by and id are not part of it: they record the operation
\* that pushed it and the number of that call among the mutating calls
Ev(path, type, by, id) == [path |-> path, type |-> type, by |-> by, id |-> id]

(***************************************************************************)
(* What the model draws its inputs from.                                   *)
(***************************************************************************)
\* the documents: s.json and s.sops, one structured and one binary
SopsNames == {<<"s", ".json">>, <<"s", ".sops">>}

\* "secret"
Secret == <<115, 101, 99, 114, 101, 116>>
\* {"a": {"b": "secret"}}
Doc0 == JObj(<<Mem("a", JObj(<<Mem("b", JStr(Secret))>>))>>)
\* {"a": "x"}, what another program or a raw write puts there
Doc1 == JObj(<<Mem("a", JStr(<<120>>))>>)

InitDoc(name) ==
    IF pathToFormat(name) = ".sops" THEN DocFile(TRUE, TRUE, JNull, Secret, 0)
    ELSE DocFile(TRUE, TRUE, Doc0, <<>>, 0)

Paths ==
    {<<>>, <<dataFilename>>, <<"a">>, <<"a", "b">>, <<"n">>, <<"x", "y">>}

\* payloads of a write to a tree path: "v", and the lone byte 0xFF
TreeContents == {<<118>>, <<255>>}

\* payloads of a write to the raw-data entry: a document and a broken one
RawContents ==
    CASE sopsFormat = ".sops" -> {<<118>>}
      [] sopsFormat = ".json" -> {RenderJson(Doc1), <<Punct("{")>>}
      [] OTHER -> {RenderBlock(Doc1.m, 0), <<Line(1, "a", "scalar", JStr(<<120>>))>>}

ContentsFor(path) ==
    IF isDataFile(path, dataFilename) THEN RawContents ELSE TreeContents

(***************************************************************************)
(* A call.  op, path, path2, content, create, overwrite: the call and its  *)
(* arguments.  pc: where it stands.  ret, buf: the step waiting for        *)
(* getTree and the bytes getTree read.  existed, value: what the call      *)
(* keeps of its checks.  temp: the private copy of withSopsFile.  err,     *)
(* node: how it ended.  The rest records what the call did: stable0 and    *)
(* changes0 the stable document and fileChanges when it began, nTool its   *)
(* sops invocations that change a file (--set, editor), nDecrypt its       *)
(* decryptions, toolFailed that one of either failed, nCommit its          *)
(* overwrites of the stable document, nInval its invalidations, disturbed  *)
(* that the stable document was changed from outside since it began, seen  *)
(* the snapshot its first await of getTree gave it (NoSnap when that       *)
(* failed), passed that it got past its checks to withSopsFile, pushed the *)
(* change events it pushed, id its number among the mutating calls.        *)
(***************************************************************************)
Mutating == {"writeFile", "createDirectory", "delete", "rename"}

IdleCall ==
    [op |-> "none", pc |-> "idle", path |-> <<>>, path2 |-> <<>>,
     content |-> <<>>, create |-> FALSE, overwrite |-> FALSE,
     ret |-> "", buf |-> NoDoc, existed |-> FALSE, value |-> Undefined,
     temp |-> NoDoc, err |-> "", node |-> NodeErr(""),
     stable0 |-> NoDoc, changes0 |-> <<>>, nTool |-> 0, nDecrypt |-> 0,
     toolFailed |-> FALSE, nCommit |-> 0, nInval |-> 0, disturbed |-> FALSE,
     seen |-> NoSnap, passed |-> FALSE, pushed |-> <<>>, id |-> 0, temps |-> {}]

NewCall(op, path, path2, content, create, overwrite) ==
    [IdleCall EXCEPT !.op = op, !.pc = "start", !.path = path, !.path2 = path2,
                     !.content = content, !.create = create,
                     !.overwrite = overwrite, !.stable0 = stable,
                     !.changes0 = fileChanges,
                     !.id = IF op \in Mutating THEN spent + 1 ELSE 0]

\* temporaryFileTask: the temporary file it makes for its callback, and what
\* it does when the callback has settled (ok: it did not reject)
temporaryFile(cr, name) == [cr EXCEPT !.temps = @ \cup {name}]

\* runTask that removes the file only when the callback did not reject: C22
\* must fail with it
runTaskKeepingOnError(cr, name, ok) ==
    IF ok THEN [cr EXCEPT !.temps = @ \ {name}] ELSE cr

\* try { return await callback(tempPath) } finally { await fs.rm(tempPath) }
runTask(cr, name, ok) == [cr EXCEPT !.temps = @ \ {name}]

\* the call settles; the task of withSopsFile, when the call is in it, settles
\* with it
Throw(cr, e) == [runTask(cr, "sopsTemp", FALSE) EXCEPT !.pc = "done", !.err = e]
Return(cr) == [runTask(cr, "sopsTemp", TRUE) EXCEPT !.pc = "done", !.err = ""]

\* what a step does besides moving its call: events it pushes, the watcher it makes
Out(cr, events, watch) == [call |-> cr, events |-> events, watch |-> watch]

\* the result of awaiting getTree
LoadOk(snap) == [ok |-> TRUE, err |-> "", snap |-> snap]
LoadFail(e) == [ok |-> FALSE, err |-> e, snap |-> NoSnap]

\* withSopsFile up to the call of f: the stable document copied to a temporary file
withSopsFile(cr, next) ==
    IF ~stable.exists THEN Throw([cr EXCEPT !.passed = TRUE], "FileNotFound")
    ELSE [temporaryFile(cr, "sopsTemp") EXCEPT !.pc = next, !.temp = stable,
                                               !.passed = TRUE]

\* toSopsCmdSet without the refusal of the binary format: C9 must fail with it
toSopsCmdSetAnyFormat(cr) == withSopsFile(cr, "set")

\* the start of f in a call whose first step is sopsCmdSet, which refuses the
\* binary format before it runs anything
toSopsCmdSet(cr) ==
    IF stable.exists /\ sopsFormat = ".sops"
    THEN Throw([temporaryFile(cr, "sopsTemp") EXCEPT !.temp = stable, !.passed = TRUE],
               "NoPermissions")
    ELSE withSopsFile(cr, "set")

\* stat: getTreeNode, then node.stat; node: what getTreeNode makes of path
statBody(cr, lr, node) ==
    IF ~lr.ok THEN Out(Throw(cr, lr.err), <<>>, FALSE)
    ELSE IF ~node.ok THEN Out(Throw(cr, node.err), <<>>, FALSE)
    ELSE Out([Return(cr) EXCEPT !.node = node], <<>>, TRUE)

readDirectoryBody(cr, lr, node) ==
    IF ~lr.ok THEN Out(Throw(cr, lr.err), <<>>, FALSE)
    ELSE IF ~node.ok THEN Out(Throw(cr, node.err), <<>>, FALSE)
    ELSE IF node.type # "Directory" THEN Out(Throw(cr, "FileNotADirectory"), <<>>, TRUE)
    ELSE Out([Return(cr) EXCEPT !.node = node], <<>>, TRUE)

readFileBody(cr, lr, node) ==
    IF ~lr.ok THEN Out(Throw(cr, lr.err), <<>>, FALSE)
    ELSE IF ~node.ok THEN Out(Throw(cr, node.err), <<>>, FALSE)
    ELSE IF node.type = "Directory" THEN Out(Throw(cr, "FileIsADirectory"), <<>>, TRUE)
    ELSE Out([Return(cr) EXCEPT !.node = node], <<>>, TRUE)

\* writeFile without the FileExists check: C2 must fail with it
writeFileBodyUnchecked(cr, lr, parentNode, pathNode) ==
    LET parent == lr.ok /\ parentNode.ok
        node == lr.ok /\ parentNode.ok /\ pathNode.ok
        cr1 == [cr EXCEPT !.existed = lr.ok /\ parentNode.ok /\ pathNode.ok]
    IN Out(IF ~node /\ ~cr.create THEN Throw(cr1, "FileNotFound")
           ELSE IF ~parent /\ cr.create THEN Throw(cr1, "FileNotFound")
           ELSE IF isDataFile(cr.path, dataFilename) THEN withSopsFile(cr1, "edit")
           ELSE toSopsCmdSet(cr1),
           <<>>, parent)

\* writeFile up to its first sops invocation: the two lookups (parentNode of
\* the path without its last segment, pathNode of the path), the checks on
\* the flags, the private copy
writeFileBody(cr, lr, parentNode, pathNode) ==
    LET parent == lr.ok /\ parentNode.ok
        node == lr.ok /\ parentNode.ok /\ pathNode.ok
        cr1 == [cr EXCEPT !.existed = lr.ok /\ parentNode.ok /\ pathNode.ok]
    IN Out(IF ~node /\ ~cr.create THEN Throw(cr1, "FileNotFound")
           ELSE IF ~parent /\ cr.create THEN Throw(cr1, "FileNotFound")
           ELSE IF node /\ cr.create /\ ~cr.overwrite THEN Throw(cr1, "FileExists")
           ELSE IF isDataFile(cr.path, dataFilename) THEN withSopsFile(cr1, "edit")
           ELSE toSopsCmdSet(cr1),
           <<>>, parent)

\* delete without the refusal of the raw-data entry: C7 must fail with it
deleteBodyUnguarded(cr, lr, node) ==
    IF ~lr.ok THEN Out(Throw(cr, lr.err), <<>>, FALSE)
    ELSE IF ~node.ok THEN Out(Throw(cr, node.err), <<>>, FALSE)
    ELSE Out(toSopsCmdSet(cr), <<>>, TRUE)

\* delete up to its first sops invocation
deleteBody(cr, lr, node) ==
    IF ~lr.ok THEN Out(Throw(cr, lr.err), <<>>, FALSE)
    ELSE IF ~node.ok THEN Out(Throw(cr, node.err), <<>>, FALSE)
    ELSE IF isDataFile(cr.path, dataFilename)
    THEN Out(Throw(cr, "NoPermissions"), <<>>, TRUE)
    ELSE Out(toSopsCmdSet(cr), <<>>, TRUE)

\* rename without the refusal of the raw-data entry: C8 must fail with it
renameBodyUnguarded(cr, lr, oldNode, newNode) ==
    IF ~lr.ok THEN Out(Throw(cr, lr.err), <<>>, FALSE)
    ELSE IF ~oldNode.ok THEN Out(Throw(cr, oldNode.err), <<>>, FALSE)
    ELSE IF ~cr.overwrite /\ newNode.ok THEN Out(Throw(cr, "FileExists"), <<>>, TRUE)
    ELSE IF lr.snap.tree.t = "null" THEN Out(Throw(cr, "unreachable"), <<>>, TRUE)
    ELSE Out(toSopsCmdSet([cr EXCEPT !.existed = newNode.ok,
                                     !.value = objectPathGet(lr.snap.tree, cr.path)]),
             <<>>, TRUE)

\* rename up to its first sops invocation
renameBody(cr, lr, oldNode, newNode) ==
    IF ~lr.ok THEN Out(Throw(cr, lr.err), <<>>, FALSE)
    ELSE IF ~oldNode.ok THEN Out(Throw(cr, oldNode.err), <<>>, FALSE)
    ELSE IF ~cr.overwrite /\ newNode.ok THEN Out(Throw(cr, "FileExists"), <<>>, TRUE)
    ELSE IF isDataFile(cr.path, dataFilename) \/ isDataFile(cr.path2, dataFilename)
    THEN Out(Throw(cr, "NoPermissions"), <<>>, TRUE)
    ELSE IF lr.snap.tree.t = "null" THEN Out(Throw(cr, "unreachable"), <<>>, TRUE)
    ELSE Out(toSopsCmdSet([cr EXCEPT !.existed = newNode.ok,
                                     !.value = objectPathGet(lr.snap.tree, cr.path)]),
             <<>>, TRUE)

\* SetValue that writes the empty text for any payload: C3 must fail with it
SetValueDropped(cr) ==
    CASE cr.op = "createDirectory" -> JObj(<<>>)
      [] cr.op = "writeFile" -> JStr(<<>>)
      [] cr.op = "rename" /\ cr.pc = "set" -> cr.value
      [] OTHER -> JStr(DELETED_MARKER)

\* ChangeEvents with the two events of a rename in the other order: C5 must
\* fail with it
ChangeEventsNewFirst(cr) ==
    CASE cr.op = "writeFile" ->
           <<Ev(cr.path, IF cr.existed THEN "Changed" ELSE "Created", cr.op, cr.id)>>
      [] cr.op = "delete" -> <<Ev(cr.path, "Deleted", cr.op, cr.id)>>
      [] cr.op = "rename" /\ cr.pc = "set2" ->
           <<Ev(cr.path2, IF cr.existed THEN "Changed" ELSE "Created", cr.op, cr.id),
             Ev(cr.path, "Deleted", cr.op, cr.id)>>
      [] OTHER -> <<>>

\* the value a call sets at pc "set" or "set2", and where
SetTarget(cr) == IF cr.op = "rename" /\ cr.pc = "set" THEN cr.path2 ELSE cr.path
SetValue(cr) ==
    CASE cr.op = "createDirectory" -> JObj(<<>>)
      [] cr.op = "writeFile" -> JStr(Utf8Decode(cr.content))
      [] cr.op = "rename" /\ cr.pc = "set" -> cr.value
      [] OTHER -> JStr(DELETED_MARKER)

\* the change events a call pushes once its sets are done
ChangeEvents(cr) ==
    CASE cr.op = "writeFile" ->
           <<Ev(cr.path, IF cr.existed THEN "Changed" ELSE "Created", cr.op, cr.id)>>
      [] cr.op = "delete" -> <<Ev(cr.path, "Deleted", cr.op, cr.id)>>
      [] cr.op = "rename" /\ cr.pc = "set2" ->
           <<Ev(cr.path, "Deleted", cr.op, cr.id),
             Ev(cr.path2, IF cr.existed THEN "Changed" ELSE "Created", cr.op, cr.id)>>
      [] OTHER -> <<>>

\* the step after a call's set at pc "set" or "set2"
AfterSet(cr) ==
    CASE cr.op \in {"writeFile", "createDirectory"} -> "commit"
      [] cr.op = "rename" /\ cr.pc = "set" -> "set2"
      [] OTHER -> "strip"

\* execSopsSet that goes on when sops failed: C1 must fail with it
execSopsSetIgnoringFailure(cr, r, fail) ==
    Out([cr EXCEPT !.nTool = @ + 1, !.toolFailed = fail \/ ~r.ok, !.temp = r.doc,
                   !.pc = AfterSet(cr)],
        ChangeEvents(cr), FALSE)

\* sopsCmdSet once sops --set has run on the private copy with result r, and
\* what follows it up to the next await; fail: sops exits with an error
execSopsSet(cr, r, fail) ==
    IF fail \/ ~r.ok
    THEN Out(Throw([cr EXCEPT !.nTool = @ + 1, !.toolFailed = TRUE], "ToolFailure"),
             <<>>, FALSE)
    ELSE Out([cr EXCEPT !.nTool = @ + 1, !.temp = r.doc, !.pc = AfterSet(cr)],
             ChangeEvents(cr), FALSE)

\* sopsCmdSet after its await of getTree
sopsCmdSetAt(cr, setPath, fail) ==
    IF ~setPath.ok THEN Out(Throw(cr, "InvalidIndex"), <<>>, FALSE)
    ELSE execSopsSet(cr, SopsSet(cr.temp, setPath.p, SetValue(cr)), fail)

sopsCmdSet(cr, lr, fail) ==
    IF ~lr.ok THEN Out(Throw(cr, lr.err), <<>>, FALSE)
    ELSE sopsCmdSetAt(cr, pathToSopsSetPath(SetTarget(cr),
                            IF lr.snap.tree.t \in {"null", "undef"} THEN JObj(<<>>)
                            ELSE lr.snap.tree),
                      fail)

\* the step of call record cr that was waiting for getTree, given its result
BodyAt(cr, lr, fail) ==
    CASE cr.pc \in {"set", "set2"} -> sopsCmdSet(cr, lr, fail)
      [] cr.op = "stat" ->
           statBody(cr, lr, getTreeNodeOf(lr.snap, cr.path, dataFilename))
      [] cr.op = "readDirectory" ->
           readDirectoryBody(cr, lr, getTreeNodeOf(lr.snap, cr.path, dataFilename))
      [] cr.op = "readFile" ->
           readFileBody(cr, lr, getTreeNodeOf(lr.snap, cr.path, dataFilename))
      [] cr.op = "writeFile" ->
           writeFileBody(cr, lr,
                         getTreeNodeOf(lr.snap, SubSeq(cr.path, 1, Len(cr.path) - 1),
                                       dataFilename),
                         getTreeNodeOf(lr.snap, cr.path, dataFilename))
      [] cr.op = "delete" ->
           deleteBody(cr, lr, getTreeNodeOf(lr.snap, cr.path, dataFilename))
      [] OTHER ->
           renameBody(cr, lr, getTreeNodeOf(lr.snap, cr.path, dataFilename),
                      getTreeNodeOf(lr.snap, cr.path2, dataFilename))

Idle(c) == call[c].pc = "idle"

\* a call that ended hands its result to its caller, and a batch that was
\* fired goes to its listeners, before anything else runs
Quiet == emitted = <<>> /\ \A c \in Calls : call[c].pc # "done"

Apply(c, out, cacheNext) ==
    /\ call' = [call EXCEPT ![c] = [out.call EXCEPT !.pushed = @ \o out.events]]
    /\ fileChanges' = fileChanges \o out.events
    /\ watcher' = (watcher \/ out.watch)
    /\ cachedTree' = cacheNext
    /\ UNCHANGED <<sopsName, stable, timer, emitted, watchPending, last, burst, registry>>

\* the call record once its first await of getTree has given it snap
Seen(cr, snap) == IF cr.pc = "start" THEN [cr EXCEPT !.seen = snap] ELSE cr

\* getTree as awaited by the step at cr.pc: the cached snapshot, or the read
\* of the stable document that starts a load
getTree(c, cr, fail) ==
    IF cachedTree = NoSnap /\ stable.exists
    THEN /\ call' = [call EXCEPT ![c] = [cr EXCEPT !.ret = cr.pc, !.pc = "load",
                                                   !.buf = stable]]
         /\ UNCHANGED <<sopsName, stable, cachedTree, fileChanges, timer, emitted,
                        watcher, watchPending, last, burst, registry>>
    ELSE Apply(c, BodyAt(Seen(cr, cachedTree),
                         IF cachedTree # NoSnap THEN LoadOk(cachedTree)
                         ELSE LoadFail("FileNotFound"), fail),
               cachedTree)

\* the snapshot getTree makes of the bytes it read
SnapshotOf(doc) ==
    Snapshot(doc.rev, SopsDecryptRaw(sopsFormat, doc),
             IF sopsFormat = ".sops" THEN JNull ELSE SopsDecryptJson(doc))

\* the rest of a load: the decryptions, this.cachedTree set, and the step
\* that awaited it
Load(c) ==
    /\ Quiet
    /\ UNCHANGED spent
    /\ call[c].pc = "load"
    /\ \E failDecrypt \in BOOLEAN, fail \in BOOLEAN :
          LET good == call[c].buf.good /\ ~failDecrypt
              cr == [runTask(temporaryFile(call[c], "tempFile"), "tempFile", good)
                       EXCEPT !.pc = call[c].ret, !.nDecrypt = @ + 1]
          IN Apply(c, BodyAt(IF good THEN Seen(cr, SnapshotOf(cr.buf))
                             ELSE [cr EXCEPT !.toolFailed = TRUE],
                             IF good THEN LoadOk(SnapshotOf(cr.buf))
                             ELSE LoadFail("ToolFailure"), fail),
                   IF good THEN SnapshotOf(cr.buf) ELSE cachedTree)

(***************************************************************************)
(* The calls.  In Spec one call is made at a time, in slot 1; timers,      *)
(* watcher callbacks and other programs run between its steps.             *)
(***************************************************************************)
MayBegin(c) == Quiet /\ c = 1 /\ \A d \in Calls : Idle(d)

\* a call that may go on to change the document begins only within the bound
MayMutate == spent < MaxMutations

Stat(c) ==
    /\ MayBegin(c)
    /\ UNCHANGED spent
    /\ \E path \in Paths :
          getTree(c, NewCall("stat", path, <<>>, <<>>, FALSE, FALSE), FALSE)

ReadDirectory(c) ==
    /\ MayBegin(c)
    /\ UNCHANGED spent
    /\ \E path \in Paths :
          getTree(c, NewCall("readDirectory", path, <<>>, <<>>, FALSE, FALSE), FALSE)

ReadFile(c) ==
    /\ MayBegin(c)
    /\ UNCHANGED spent
    /\ \E path \in Paths :
          getTree(c, NewCall("readFile", path, <<>>, <<>>, FALSE, FALSE), FALSE)

CreateDirectory(c) ==
    /\ MayBegin(c)
    /\ MayMutate
    /\ spent' = spent + 1
    /\ \E path \in Paths :
          Apply(c, Out(toSopsCmdSet(NewCall("createDirectory", path, <<>>, <<>>,
                                            FALSE, FALSE)), <<>>, FALSE),
                cachedTree)

WriteFile(c) ==
    /\ MayBegin(c)
    /\ MayMutate
    /\ spent' = spent + 1
    /\ \E path \in Paths, create \in BOOLEAN, overwrite \in BOOLEAN :
          \E content \in ContentsFor(path) :
             getTree(c, NewCall("writeFile", path, <<>>, content, create, overwrite),
                     FALSE)

Delete(c) ==
    /\ MayBegin(c)
    /\ MayMutate
    /\ spent' = spent + 1
    /\ \E path \in Paths :
          getTree(c, NewCall("delete", path, <<>>, <<>>, FALSE, FALSE), FALSE)

Rename(c) ==
    /\ MayBegin(c)
    /\ MayMutate
    /\ spent' = spent + 1
    /\ \E oldPath \in Paths, newPath \in Paths, overwrite \in BOOLEAN :
          getTree(c, NewCall("rename", oldPath, newPath, <<>>, FALSE, overwrite),
                  FALSE)

\* sopsCmdSet of a call that is at one; it awaits getTree first
Set(c) ==
    /\ Quiet
    /\ UNCHANGED spent
    /\ call[c].pc \in {"set", "set2"}
    /\ \E fail \in BOOLEAN : getTree(c, call[c], fail)

\* writeFile of the raw-data entry: sopsCmdWrite of the payload, then the event
Edit(c) ==
    /\ Quiet
    /\ UNCHANGED spent
    /\ call[c].pc = "edit"
    /\ \E fail \in BOOLEAN :
          LET r == SopsEdit(sopsFormat, call[c].temp, call[c].content)
              cr == [runTask(temporaryFile(call[c], "contentTemp"), "contentTemp",
                             ~fail /\ r.code \in {0, 200})
                       EXCEPT !.nTool = @ + 1]
          IN IF fail \/ r.code \notin {0, 200}
             THEN Apply(c, Out(Throw([cr EXCEPT !.toolFailed = TRUE], "ToolFailure"),
                               <<>>, FALSE), cachedTree)
             ELSE Apply(c, Out([cr EXCEPT !.temp = r.doc, !.pc = "commit"],
                               ChangeEvents(cr), FALSE), cachedTree)

\* delete and rename: sopsCmdRead of the private copy, deleteMarker, sopsCmdWrite
Strip(c) ==
    /\ Quiet
    /\ UNCHANGED spent
    /\ call[c].pc = "strip"
    /\ \E fail \in BOOLEAN :
          LET cr == [call[c] EXCEPT !.nDecrypt = @ + 1]
              stripped == deleteMarker(sopsFormat, SopsDecryptRaw(sopsFormat, cr.temp))
              r == SopsEdit(sopsFormat, cr.temp, stripped.out)
              failed == [cr EXCEPT !.toolFailed = TRUE]
          IN IF fail \/ ~cr.temp.good
             THEN Apply(c, Out(Throw(failed, "ToolFailure"), <<>>, FALSE), cachedTree)
             ELSE IF ~stripped.ok
             THEN Apply(c, Out(Throw(cr, "Error"), <<>>, FALSE), cachedTree)
             ELSE IF r.code \notin {0, 200}
             THEN Apply(c, Out(Throw([runTask(temporaryFile(failed, "contentTemp"),
                                              "contentTemp", FALSE)
                                        EXCEPT !.nTool = @ + 1], "ToolFailure"),
                               <<>>, FALSE), cachedTree)
             ELSE Apply(c, Out([runTask(temporaryFile(cr, "contentTemp"),
                                        "contentTemp", TRUE)
                                  EXCEPT !.nTool = @ + 1, !.temp = r.doc,
                                         !.pc = "commit"], <<>>, FALSE),
                        cachedTree)

\* what is kept of a call that overwrote the stable document: the call, and
\* of the document it replaced the number of times it had been written (rev)
\* and the kind of value it held at the path (held); the flags are kept of a
\* write to the raw-data entry only
NoLast == [op |-> "none", path |-> <<>>, content |-> <<>>, held |-> "", rev |-> 0,
           id |-> 0, create |-> FALSE, overwrite |-> FALSE]
LastOf(cr) ==
    [op |-> cr.op, path |-> cr.path, content |-> cr.content,
     held |-> objectPathGet(stable.tree, cr.path).t, rev |-> stable.rev,
     id |-> cr.id,
     create |-> isDataFile(cr.path, dataFilename) /\ cr.create,
     overwrite |-> isDataFile(cr.path, dataFilename) /\ cr.overwrite]

\* applySopsChange, first half: the private copy copied over the stable
\* document; fail: the copy fails
Commit(c) ==
    /\ Quiet
    /\ call[c].pc = "commit"
    /\ \E fail \in BOOLEAN :
          IF fail
          THEN /\ call' = [call EXCEPT ![c] = Throw(@, "IOError")]
               /\ UNCHANGED <<stable, watchPending, last>>
          ELSE /\ stable' = [call[c].temp EXCEPT !.rev = stable.rev + 1]
               /\ watchPending' = (watchPending \/ watcher)
               /\ call' = [call EXCEPT ![c].pc = "inval", ![c].nCommit = @ + 1]
               /\ last' = LastOf(call[c])
    /\ UNCHANGED <<sopsName, cachedTree, fileChanges, timer, emitted, watcher, spent, burst, registry>>

\* applySopsChange that keeps this.cachedTree: C10 must fail with it
InvalidateKeepingCache(c) ==
    /\ Quiet
    /\ call[c].pc = "inval"
    /\ burst' = Another(burst)
    /\ timer' = TRUE
    /\ call' = [call EXCEPT ![c] = [Return(@) EXCEPT !.nInval = @ + 1]]
    /\ UNCHANGED <<sopsName, stable, cachedTree, fileChanges, emitted, watcher,
                   watchPending, last, spent, registry>>

\* applySopsChange, second half: invalidateTreeCache, and the call returns
Invalidate(c) ==
    /\ Quiet
    /\ call[c].pc = "inval"
    /\ burst' = Another(burst)
    /\ cachedTree' = NoSnap
    /\ timer' = TRUE
    /\ call' = [call EXCEPT ![c] = [Return(@) EXCEPT !.nInval = @ + 1]]
    /\ UNCHANGED <<sopsName, stable, fileChanges, emitted, watcher, watchPending,
                   last, spent, registry>>

\* the call hands its result to its caller
Returned(c) ==
    /\ call[c].pc = "done"
    /\ call' = [call EXCEPT ![c] = IdleCall]
    /\ UNCHANGED <<sopsName, stable, cachedTree, fileChanges, timer, emitted,
                   watcher, watchPending, last, spent, burst, registry>>

\* BatchOf with the root-level event in every batch: C13 must fail with it
BatchOfRootAlways(pending) ==
    <<Ev(<<>>, "Changed", "emitChanged", 0)>> \o pending
    \o (IF dataFilename # "" THEN <<Ev(<<dataFilename>>, "Changed", "emitChanged", 0)>>
        ELSE <<>>)

\* the batch emitChanged fires, given the events pending
BatchOf(pending) ==
    (IF Len(pending) = 0 THEN <<Ev(<<>>, "Changed", "emitChanged", 0)>> ELSE pending)
    \o (IF dataFilename # "" THEN <<Ev(<<dataFilename>>, "Changed", "emitChanged", 0)>>
        ELSE <<>>)

\* the timer of the throttle runs out: emitChanged's function
EmitChanged ==
    /\ Quiet
    /\ timer
    /\ timer' = FALSE
    /\ emitted' = BatchOf(fileChanges)
    /\ fileChanges' = <<>>
    /\ UNCHANGED <<sopsName, stable, cachedTree, watcher, watchPending, call, last, spent, burst, registry>>

\* the listeners of onDidChangeFile have run
Delivered ==
    /\ emitted # <<>>
    /\ emitted' = <<>>
    /\ burst' = "none"
    /\ UNCHANGED <<sopsName, stable, cachedTree, fileChanges, timer, watcher,
                   watchPending, call, last, spent, registry>>

\* WatcherEvent with a throttle that fires at the leading edge as well: C14
\* must fail with it
WatcherEventLeading ==
    /\ Quiet
    /\ watchPending
    /\ burst' = Another(burst)
    /\ watchPending' = FALSE
    /\ cachedTree' = NoSnap
    /\ timer' = TRUE
    /\ emitted' = (IF timer THEN emitted ELSE BatchOf(fileChanges))
    /\ fileChanges' = (IF timer THEN fileChanges ELSE <<>>)
    /\ UNCHANGED <<sopsName, stable, watcher, call, last, spent, registry>>

\* a callback of the watcher: invalidateTreeCache
WatcherEvent ==
    /\ Quiet
    /\ watchPending
    /\ burst' = Another(burst)
    /\ watchPending' = FALSE
    /\ cachedTree' = NoSnap
    /\ timer' = TRUE
    /\ UNCHANGED <<sopsName, stable, fileChanges, emitted, watcher, call, last, spent, registry>>

\* another program rewrites the stable document, or removes it
ExternalChange ==
    /\ Quiet
    /\ MayMutate
    /\ spent' = spent + 1
    /\ \E doc \in {DocFile(TRUE, TRUE, IF sopsFormat = ".sops" THEN JNull ELSE Doc1,
                           IF sopsFormat = ".sops" THEN <<120>> ELSE <<>>, 0),
                   DocFile(TRUE, FALSE, Undefined, <<>>, 0),
                   NoDoc} :
          stable' = [doc EXCEPT !.rev = stable.rev + 1]
    /\ watchPending' = (watchPending \/ watcher)
    /\ call' = [c \in Calls |->
                  IF Idle(c) THEN call[c] ELSE [call[c] EXCEPT !.disturbed = TRUE]]
    /\ last' = NoLast
    /\ UNCHANGED <<sopsName, cachedTree, fileChanges, timer, emitted, watcher, burst, registry>>

Init ==
    /\ sopsName \in SopsNames
    /\ stable = InitDoc(sopsName)
    /\ cachedTree = NoSnap
    /\ fileChanges = <<>>
    /\ timer = FALSE
    /\ emitted = <<>>
    /\ watcher = FALSE
    /\ watchPending = FALSE
    /\ call = [c \in Calls |-> IdleCall]
    /\ last = NoLast
    /\ spent = 0
    /\ burst = "none"
    /\ registry = Standalone

Next ==
    \/ \E c \in Calls : Stat(c)
    \/ \E c \in Calls : ReadDirectory(c)
    \/ \E c \in Calls : ReadFile(c)
    \/ \E c \in Calls : CreateDirectory(c)
    \/ \E c \in Calls : WriteFile(c)
    \/ \E c \in Calls : Delete(c)
    \/ \E c \in Calls : Rename(c)
    \/ \E c \in Calls : Load(c)
    \/ \E c \in Calls : Set(c)
    \/ \E c \in Calls : Edit(c)
    \/ \E c \in Calls : Strip(c)
    \/ \E c \in Calls : Commit(c)
    \/ \E c \in Calls : Invalidate(c)
    \/ \E c \in Calls : Returned(c)
    \/ EmitChanged
    \/ Delivered
    \/ WatcherEvent
    \/ ExternalChange

Spec == Init /\ [][Next]_vars

(***************************************************************************)
(* The properties.  A property about how a call ends is stated over the    *)
(* states in which the call is at "done", before it hands its result over. *)
(***************************************************************************)
\* getTreeNode(path) succeeds on snapshot snap; on no snapshot nothing resolves
Resolves(snap, path) ==
    snap # NoSnap /\ getTreeNodeOf(snap, path, dataFilename).ok

\* the call of record cr did not overwrite the stable document, which is as
\* it was when the call began unless another program changed it meanwhile
Untouched(cr) == cr.nCommit = 0 /\ (~cr.disturbed => stable = cr.stable0)

\* the sops invocations that change a file in a call of op that succeeds
ToolSteps(op) ==
    CASE op = "rename" -> 3
      [] op = "delete" -> 2
      [] OTHER -> 1

\* C1: in a mutating call (writeFile, createDirectory, delete, rename), when a
\* sops invocation fails (set, decrypt, or editor with a status other than
\* 'not modified') the call ends with an error, has not overwritten the stable
\* document, which is as before the call, and has not invalidated the cached
\* snapshot; the stable document is overwritten only after every tool step of
\* the call has succeeded on the private copy.
C1_ToolFailureLeavesStable ==
    \A c \in Calls :
       LET cr == call[c] IN
       cr.op \in Mutating =>
          /\ cr.nCommit > 0 =>
                /\ ~cr.toolFailed
                /\ cr.nTool = ToolSteps(cr.op)
                /\ cr.pc \in {"inval", "done"}
          /\ cr.nInval > 0 => cr.nCommit > 0
          /\ (cr.pc = "done" /\ cr.toolFailed) =>
                /\ cr.err # ""
                /\ cr.nInval = 0
                /\ Untouched(cr)

\* a rename whose two sets succeeded and whose re-encryption failed
C1_Witness ==
    \E c \in Calls :
       /\ call[c].op = "rename" /\ call[c].pc = "done"
       /\ call[c].toolFailed /\ call[c].nTool >= 2
       /\ call[c].err = "ToolFailure"

\* the checks of a writeFile call have run
Checked(cr) == cr.op = "writeFile" /\ (cr.pc = "load" => cr.ret # "start")

\* the writeFile call of record cr ended at its checks with error e; quiet:
\* it also ran no decryption
Refused(cr, e, quiet) ==
    /\ cr.pc = "done" /\ cr.err = e
    /\ ~cr.passed
    /\ cr.nTool = 0
    /\ quiet => cr.nDecrypt = 0
    /\ Untouched(cr)

\* the three checks of writeFile against the snapshot the call was given
WriteFileChecks(cr, quiet) ==
    LET parentPath == SubSeq(cr.path, 1, Len(cr.path) - 1) IN
    IF ~Resolves(cr.seen, cr.path) /\ ~cr.create
    THEN Refused(cr, "FileNotFound", quiet)
    ELSE IF ~Resolves(cr.seen, parentPath) /\ cr.create
    THEN Refused(cr, "FileNotFound", quiet)
    ELSE IF Resolves(cr.seen, cr.path) /\ cr.create /\ ~cr.overwrite
    THEN Refused(cr, "FileExists", quiet)
    ELSE cr.passed

\* C2 (amended): writeFile(p, bytes, {create, overwrite}) fails with
\* FileNotFound when p does not resolve and create is false, with FileNotFound
\* when p's parent does not resolve and create is true, with FileExists when p
\* resolves and create is true and overwrite is false; in these three cases
\* sops is not run to set or to re-encrypt (it may have run to decrypt, when no
\* snapshot was cached) and the stable document is unchanged; in every other
\* case the call proceeds to the mutation.
C2_WriteFileChecks ==
    \A c \in Calls : Checked(call[c]) => WriteFileChecks(call[c], FALSE)

\* C2 as stated, of the calls in which sops does not fail: in the three
\* cases no tool invocation at all is made
C2_NoToolInvocation ==
    \A c \in Calls :
       (Checked(call[c]) /\ ~call[c].toolFailed) => WriteFileChecks(call[c], TRUE)

\* a writeFile with create refused because the parent of its path is missing
C2_Witness ==
    \E c \in Calls :
       /\ Checked(call[c]) /\ call[c].pc = "done"
       /\ call[c].create /\ call[c].err = "FileNotFound"
       /\ call[c].seen # NoSnap
       /\ ~Resolves(call[c].seen, SubSeq(call[c].path, 1, Len(call[c].path) - 1))

\* the read call of record cr follows a writeFile to its own path, a tree
\* path that held a leaf or nothing, with no change of the document since
ReadsBack(cr) ==
    /\ cr.pc = "done" /\ cr.op \in {"readFile", "stat"}
    /\ ~cr.toolFailed /\ ~cr.disturbed
    /\ last.op = "writeFile" /\ last.path = cr.path
    /\ ~isDataFile(cr.path, dataFilename)
    /\ last.held \in {"str", "num", "undef"}

\* what a read gives back of payload b: the bytes of its text
TextBytes(b) == Utf8Encode(Utf8Decode(b))

C4_RenameMovesValue ==
    \A c \in Calls :
       LET cr == call[c] IN
       (cr.op = "rename" /\ cr.pc = "done" /\ cr.err = "" /\ ~cr.disturbed) =>
          /\ cr.nCommit = 1
          /\ objectPathGet(stable.tree, cr.path) = Undefined
          /\ objectPathGet(stable.tree, cr.path2) = cr.value

\* the pair of events of a rename call, given the snapshot its checks saw
RenameEvents(cr) ==
    <<Ev(cr.path, "Deleted", "rename", cr.id),
      Ev(cr.path2, IF Resolves(cr.seen, cr.path2) THEN "Changed" ELSE "Created",
         "rename", cr.id)>>

\* in events the events of renames come as pairs of one call, Deleted first
RenamePairs(events) ==
    \A i \in DOMAIN events :
       events[i].by = "rename" =>
          IF events[i].type = "Deleted"
          THEN /\ i < Len(events)
               /\ events[i + 1].by = "rename"
               /\ events[i + 1].id = events[i].id
               /\ events[i + 1].type # "Deleted"
          ELSE /\ i > 1
               /\ events[i - 1].by = "rename"
               /\ events[i - 1].id = events[i].id
               /\ events[i - 1].type = "Deleted"

\* C5: a successful rename(old, new) pushes one Deleted event at old and one
\* event at new (Created if new did not resolve before the call, Changed if
\* it did) and no other; in the pending events and in every batch fired the
\* two are next to each other, Deleted first, and no batch carries an event
\* of a call of which events are still pending.
C5_RenameEvents ==
    /\ \A c \in Calls :
          LET cr == call[c] IN
          cr.op = "rename" =>
             /\ cr.pushed \in {<<>>, RenameEvents(cr)}
             /\ (cr.pc = "done" /\ cr.err = "") => cr.pushed = RenameEvents(cr)
    /\ RenamePairs(fileChanges)
    /\ RenamePairs(emitted)
    /\ \A i \in DOMAIN fileChanges, j \in DOMAIN emitted :
          emitted[j].id = 0 \/ emitted[j].id # fileChanges[i].id

\* a batch that carries the events of a rename to a path that did not resolve
C5_Witness ==
    \E i \in DOMAIN emitted :
       /\ emitted[i].by = "rename" /\ emitted[i].type = "Created"
       /\ last.op = "rename" /\ last.id = emitted[i].id

\* the call of record cr ended, sops did not fail in it and no other program
\* changed the document during it
Ended(cr, op, path) ==
    /\ cr.pc = "done" /\ cr.op = op /\ cr.path = path
    /\ ~cr.toolFailed /\ ~cr.disturbed

\* the last change of the document was delete("/a/b") on {"a": {"b": "secret"}},
\* the document a JSON behaviour begins with
AfterDeleteOfAB ==
    /\ sopsFormat = ".json"
    /\ last.op = "delete" /\ last.path = <<"a", "b">>
    /\ last.rev = 0

\* the parts of C6 that hold as stated, for the call of record cr
ListsAndReads(cr) ==
    /\ (Ended(cr, "readDirectory", <<>>) /\ cr.seen.tree = Doc0) =>
          /\ cr.err = ""
          /\ cr.node.entries = <<<<dataFilename, "File">>, <<"a", "Directory">>>>
    /\ (Ended(cr, "readFile", <<"a", "b">>) /\ cr.seen.tree = Doc0) =>
          /\ cr.err = ""
          /\ cr.node.value = Secret
    /\ (AfterDeleteOfAB /\ Ended(cr, "readFile", <<"a", "b">>)) =>
          cr.err = "FileNotFound"

\* C6 (amended): on the JSON document {"a": {"b": "secret"}}, list("/")
\* returns [raw-data entry, "a"], read("/a/b") returns "secret", and after
\* delete("/a/b") succeeds read("/a/b") fails with FileNotFound and the
\* parent survives as an empty directory: list("/a") returns no entry,
\* stat("/a") reports a Directory of size 0, read("/a") fails with
\* FileIsADirectory.
C6_DeleteScenario ==
    sopsFormat = ".json" =>
       \A c \in Calls :
          LET cr == call[c] IN
          /\ ListsAndReads(cr)
          /\ AfterDeleteOfAB =>
                /\ stable.tree = JObj(<<Mem("a", JObj(<<>>))>>)
                /\ Ended(cr, "readFile", <<"a">>) => cr.err = "FileIsADirectory"
                /\ Ended(cr, "readDirectory", <<"a">>) =>
                      cr.err = "" /\ cr.node.entries = <<>>
                /\ Ended(cr, "stat", <<"a">>) =>
                      /\ cr.err = ""
                      /\ cr.node.type = "Directory" /\ cr.node.size = 0

\* C6 as stated: after the delete read("/a") returns (the text of) {}
C6_ReadOfParentReturns ==
    sopsFormat = ".json" =>
       \A c \in Calls :
          LET cr == call[c] IN
          /\ ListsAndReads(cr)
          /\ (AfterDeleteOfAB /\ Ended(cr, "readFile", <<"a">>)) =>
                /\ cr.err = ""
                /\ cr.node.type = "File"

\* read("/a") after the delete of "/a/b"
C6_Witness ==
    \E c \in Calls :
       /\ AfterDeleteOfAB /\ Ended(call[c], "readFile", <<"a">>)
       /\ call[c].err = "FileIsADirectory"

\* the call of record cr ended with an error, without a sops invocation that
\* changes a file and without a change of the stable document
FailedClean(cr) ==
    /\ cr.err # ""
    /\ cr.nTool = 0
    /\ Untouched(cr)

\* the error of a call that was given no snapshot
LoadErrors == {"FileNotFound", "ToolFailure"}

\* C7 (amended): delete of the raw-data entry never succeeds, for every
\* format and state of the cache: it fails with NoPermissions when the call
\* is given a snapshot (cached, or derived from the stable document) and with
\* the error of the derivation when it is not; sops is never run to set or
\* to re-encrypt, and the stable document is unchanged.
C7_DeleteOfDataFile ==
    \A c \in Calls :
       LET cr == call[c] IN
       (cr.op = "delete" /\ isDataFile(cr.path, dataFilename)) =>
          /\ cr.pc \in {"load", "done"}
          /\ cr.nTool = 0 /\ cr.nCommit = 0 /\ ~cr.passed
          /\ cr.pc = "done" =>
                /\ FailedClean(cr)
                /\ cr.seen # NoSnap => cr.err = "NoPermissions"
                /\ cr.seen = NoSnap => cr.err \in LoadErrors

\* C7 as stated: the failure is always NoPermissions
C7_AlwaysNoPermissions ==
    \A c \in Calls :
       LET cr == call[c] IN
       (cr.op = "delete" /\ isDataFile(cr.path, dataFilename) /\ cr.pc = "done") =>
          /\ FailedClean(cr)
          /\ cr.err = "NoPermissions"

\* a delete of the raw-data entry refused on a cached snapshot
C7_Witness ==
    \E c \in Calls :
       /\ call[c].op = "delete" /\ isDataFile(call[c].path, dataFilename)
       /\ call[c].pc = "done" /\ call[c].err = "NoPermissions"
       /\ call[c].nDecrypt = 0

\* old or new of the rename call of record cr is the raw-data entry
DataFileRename(cr) ==
    /\ cr.op = "rename"
    /\ isDataFile(cr.path, dataFilename) \/ isDataFile(cr.path2, dataFilename)

\* C8 (amended): rename(old, new, {overwrite}) in which old or new is the
\* raw-data entry never succeeds and leaves the stable document unchanged,
\* for every value of overwrite and whatever the other endpoint; its error is
\* that of the derivation when the call is given no snapshot, that of the
\* lookup (FileNotFound) when old does not resolve, FileExists when new
\* resolves and overwrite is false, and NoPermissions in every other case.
C8_RenameOfDataFile ==
    \A c \in Calls :
       LET cr == call[c] IN
       DataFileRename(cr) =>
          /\ cr.pc \in {"load", "done"}
          /\ cr.nTool = 0 /\ cr.nCommit = 0 /\ ~cr.passed
          /\ cr.pc = "done" =>
                /\ FailedClean(cr)
                /\ IF cr.seen = NoSnap THEN cr.err \in LoadErrors
                   ELSE IF ~Resolves(cr.seen, cr.path)
                   THEN cr.err = getTreeNodeOf(cr.seen, cr.path, dataFilename).err
                   ELSE IF ~cr.overwrite /\ Resolves(cr.seen, cr.path2)
                   THEN cr.err = "FileExists"
                   ELSE cr.err = "NoPermissions"

\* C8 as stated, of the calls that are given a snapshot: the failure is
\* always NoPermissions
C8_AlwaysNoPermissions ==
    \A c \in Calls :
       LET cr == call[c] IN
       (DataFileRename(cr) /\ cr.pc = "done" /\ cr.seen # NoSnap) =>
          /\ FailedClean(cr)
          /\ cr.err = "NoPermissions"

\* a rename onto the raw-data entry with overwrite, refused
C8_Witness ==
    \E c \in Calls :
       /\ DataFileRename(call[c]) /\ call[c].pc = "done"
       /\ isDataFile(call[c].path2, dataFilename) /\ call[c].overwrite
       /\ call[c].err = "NoPermissions"

\* the call of record cr is a writeFile to a tree path of a binary document
\* and its checks have run
BinaryTreeWrite(cr) ==
    /\ sopsFormat = ".sops"
    /\ Checked(cr)
    /\ ~isDataFile(cr.path, dataFilename)

\* C9 (amended): on a binary document, writeFile to a path other than the
\* raw-data entry never succeeds, for every combination of create and
\* overwrite, runs sops neither to set nor to re-encrypt and leaves the stable
\* document unchanged; it fails with NoPermissions when the call passes the
\* checks of writeFile and can read the stable document, and with the
\* FileNotFound or FileExists of those checks otherwise.
C9_BinaryTreeWrite ==
    \A c \in Calls :
       LET cr == call[c] IN
       BinaryTreeWrite(cr) =>
          /\ cr.pc = "done"
          /\ FailedClean(cr)
          /\ WriteFileChecks(cr, FALSE)
          /\ cr.passed =>
                cr.err = IF stable.exists THEN "NoPermissions" ELSE "FileNotFound"
          /\ cr.err \in {"NoPermissions", "FileNotFound", "FileExists"}

\* C9 as stated, of the calls that are given a snapshot: the failure is
\* always NoPermissions
C9_AlwaysNoPermissions ==
    \A c \in Calls :
       LET cr == call[c] IN
       (BinaryTreeWrite(cr) /\ cr.seen # NoSnap) =>
          /\ cr.pc = "done"
          /\ FailedClean(cr)
          /\ cr.err = "NoPermissions"

\* a write with create to a new key under the root of a binary document
C9_Witness ==
    \E c \in Calls :
       /\ BinaryTreeWrite(call[c]) /\ call[c].pc = "done"
       /\ call[c].path = <<"n">> /\ call[c].create
       /\ call[c].err = "NoPermissions"

\* C10: when writeFile to the raw-data entry succeeds the cached snapshot is
\* discarded, and the next readFile of the raw-data entry, with no other
\* operation meanwhile, returns the bytes sops decrypts from the stable
\* document as the write left it, not bytes cached before the write.
C10_RawWriteThenRead ==
    \A c \in Calls :
       LET cr == call[c] IN
       /\ (cr.pc = "done" /\ cr.op = "writeFile" /\ cr.err = ""
           /\ isDataFile(cr.path, dataFilename)) =>
             /\ cachedTree = NoSnap
             /\ cr.nInval = 1
       /\ (Ended(cr, "readFile", <<dataFilename>>)
           /\ last.op = "writeFile" /\ isDataFile(last.path, dataFilename)) =>
             /\ cr.err = ""
             /\ cr.node.value = SopsDecryptRaw(sopsFormat, stable)
             /\ cr.seen.stat = stable.rev

\* a read of the raw-data entry after a write that changed its bytes
C10_Witness ==
    \E c \in Calls :
       /\ Ended(call[c], "readFile", <<dataFilename>>)
       /\ last.op = "writeFile" /\ isDataFile(last.path, dataFilename)
       /\ ~last.create /\ last.overwrite
       /\ call[c].node.value = last.content
       /\ last.rev = 0
       /\ call[c].node.value # SopsDecryptRaw(sopsFormat, InitDoc(sopsName))

(***************************************************************************)
(* SpecTree: reads of a document of every format.  The engine is newly     *)
(* constructed on one of the documents below and only stat, readDirectory  *)
(* and readFile are called.                                                *)
(***************************************************************************)
\* s.json, s.yaml, s.yml, s.ini, s.env, s.sops, s.json.sops and s
TreeNames ==
    {<<"s", ".json">>, <<"s", ".yaml">>, <<"s", ".yml">>, <<"s", ".ini">>,
     <<"s", ".env">>, <<"s", ".sops">>, <<"s", ".json", ".sops">>, <<"s">>}

\* {"a": ["p", {"c": 1}], "n": 5}
DocArr ==
    JObj(<<Mem("a", JArr(<<Mem("", JStr(<<112>>)),
                           Mem("", JObj(<<Mem("c", JNum(1))>>))>>)),
           Mem("n", JNum(5))>>)
\* {"a": {"b": null}, "n": ""}
DocNull ==
    JObj(<<Mem("a", JObj(<<Mem("b", JNull)>>)), Mem("n", JStr(<<>>))>>)

\* the trees of SpecTree: {}, {"a": {"b": "secret"}}, DocArr, DocNull
TreeDocs == {JObj(<<>>), Doc0, DocArr, DocNull}

InitTree ==
    /\ sopsName \in TreeNames
    /\ stable \in IF pathToFormat(sopsName) = ".sops"
                  THEN {DocFile(TRUE, TRUE, JNull, Secret, 0),
                        DocFile(TRUE, TRUE, JNull, <<>>, 0)}
                  ELSE {DocFile(TRUE, TRUE, tree, <<>>, 0) : tree \in TreeDocs}
    /\ cachedTree = NoSnap
    /\ fileChanges = <<>>
    /\ timer = FALSE
    /\ emitted = <<>>
    /\ watcher = FALSE
    /\ watchPending = FALSE
    /\ call = [c \in Calls |-> IdleCall]
    /\ last = NoLast
    /\ spent = 0
    /\ burst = "none"
    /\ registry = Standalone

NextTree ==
    \/ \E c \in Calls : Stat(c)
    \/ \E c \in Calls : ReadDirectory(c)
    \/ \E c \in Calls : ReadFile(c)
    \/ \E c \in Calls : Load(c)
    \/ \E c \in Calls : Returned(c)

SpecTree == InitTree /\ [][NextTree]_vars

\* the top-level entries of the tree of snapshot snap, none when it has no tree
TopEntries(snap) ==
    IF snap.tree.t \in {"obj", "arr"} THEN EntriesOf(snap.tree) ELSE <<>>

\* the call of record cr read the root of a document that was decrypted
RootRead(cr) ==
    /\ cr.pc = "done" /\ cr.op \in {"stat", "readDirectory"}
    /\ cr.path = <<>>
    /\ cr.seen # NoSnap

StatOn(snap, path) ==
    statBody(NewCall("stat", path, <<>>, <<>>, FALSE, FALSE), LoadOk(snap),
             getTreeNodeOf(snap, path, dataFilename)).call

\* the value that the name of a listing entry of directory d stands for
EntryValue(snap, d, name) ==
    IF snap.tree.t = "null" THEN Undefined
    ELSE objectPathGet(snap.tree, d \o <<name>>)

\* C12: for every snapshot, every directory d that resolves in it and every
\* entry (name, kind) of list(d), stat(d/name) succeeds and reports the same
\* kind, Directory iff the tree value at d/name is an object or array, File
\* for every other value (string, number, null).
C12_ListStatAgree ==
    \A c \in Calls :
       LET cr == call[c] IN
       (cr.pc = "done" /\ cr.op = "readDirectory" /\ cr.err = "") =>
          \A i \in DOMAIN cr.node.entries :
             LET name == cr.node.entries[i][1]
                 kind == cr.node.entries[i][2]
                 st == StatOn(cr.seen, cr.path \o <<name>>)
             IN /\ st.err = ""
                /\ st.node.type = kind
                /\ kind = "Directory"
                      <=> EntryValue(cr.seen, cr.path, name).t \in {"obj", "arr"}

\* the events emitChanged adds of its own
RootChanged == Ev(<<>>, "Changed", "emitChanged", 0)
DataFileChanged == Ev(<<dataFilename>>, "Changed", "emitChanged", 0)

\* batch holds a root-level Changed event
HasRootChanged(batch) ==
    \E i \in DOMAIN batch : batch[i].path = <<>> /\ batch[i].type = "Changed"

\* C13 (amended): every batch fired ends with a Changed event of the raw-data
\* entry; before it come the events that were pending when the batch was
\* flushed, in their order, or, when none was pending, one root-level Changed
\* event: a batch that carries events of calls has no root-level event.
C13_BatchContents ==
    emitted # <<>> =>
       LET n == Len(emitted) IN
       /\ n >= 2
       /\ emitted[n] = DataFileChanged
       /\ \/ n = 2 /\ emitted[1] = RootChanged
          \/ /\ \A i \in 1..(n - 1) : emitted[i].id # 0
             /\ ~HasRootChanged(emitted)

\* C13 as stated: every batch holds a root-level Changed event and a Changed
\* event of the raw-data entry
C13_RootInEveryBatch ==
    emitted # <<>> =>
       /\ HasRootChanged(emitted)
       /\ \E i \in DOMAIN emitted : emitted[i] = DataFileChanged

\* a batch with the event of a call, and no root-level event
C13_Witness ==
    /\ emitted # <<>>
    /\ emitted[1].id # 0
    /\ ~HasRootChanged(emitted)

(***************************************************************************)
(* Calls that overlap.  SpecFlight starts from an engine that has resolved *)
(* a path before (its watcher exists) and whose snapshot was invalidated   *)
(* since, and in which two callers are about to make their calls; the      *)
(* calls, the timer and the watcher take their steps in any order.         *)
(***************************************************************************)
\* {"a": ["p"]}
DocList == JObj(<<Mem("a", JArr(<<Mem("", JStr(<<112>>))>>))>>)

\* the call made in slot c, not yet entered
FlightCall(c, op, path, path2, content, create) ==
    [NewCall(op, path, path2, content, create, FALSE) EXCEPT !.id = c]

\* what the two callers call: the first rewrites the document through the
\* raw-data entry, adds a key or deletes one, the second writes, moves or
\* makes a directory
FlightCalls(c) ==
    IF c = 1
    THEN {FlightCall(c, "writeFile", <<dataFilename>>, <<>>, RenderJson(DocList), FALSE),
          FlightCall(c, "writeFile", <<"n">>, <<>>, <<118>>, TRUE),
          FlightCall(c, "delete", <<"a", "b">>, <<>>, <<>>, FALSE)}
    ELSE {FlightCall(c, "writeFile", <<"a", "b">>, <<>>, <<118>>, FALSE),
          FlightCall(c, "rename", <<"a", "b">>, <<"n">>, <<>>, FALSE),
          FlightCall(c, "createDirectory", <<"n">>, <<>>, <<>>, FALSE)}

\* the call of slot c is made: its part up to its first await
Enter(c) ==
    /\ Quiet
    /\ UNCHANGED spent
    /\ call[c].pc = "start"
    /\ LET cr == [call[c] EXCEPT !.stable0 = stable, !.changes0 = fileChanges,
                                 !.disturbed = FALSE]
       IN IF cr.op = "createDirectory"
          THEN Apply(c, Out(toSopsCmdSet(cr), <<>>, FALSE), cachedTree)
          ELSE getTree(c, cr, FALSE)

InitFlight ==
    /\ sopsName = <<"s", ".json">>
    /\ stable = InitDoc(sopsName)
    /\ cachedTree = NoSnap
    /\ fileChanges = <<>>
    /\ timer = FALSE
    /\ emitted = <<>>
    /\ watcher = TRUE
    /\ watchPending = FALSE
    /\ last = NoLast
    /\ spent = 0
    /\ call \in [Calls -> UNION {FlightCalls(c) : c \in Calls}]
    /\ \A c \in Calls : call[c] \in FlightCalls(c)
    /\ burst = "none"
    /\ registry = Standalone

NextFlight ==
    \/ \E c \in Calls : Enter(c)
    \/ \E c \in Calls : Load(c)
    \/ \E c \in Calls : Set(c)
    \/ \E c \in Calls : Edit(c)
    \/ \E c \in Calls : Strip(c)
    \/ \E c \in Calls : Commit(c)
    \/ \E c \in Calls : Invalidate(c)
    \/ \E c \in Calls : Returned(c)
    \/ EmitChanged
    \/ Delivered
    \/ WatcherEvent

SpecFlight == InitFlight /\ [][NextFlight]_vars

\* the timer of the throttle runs out, the listeners of a batch run and a
\* call that ended hands its result over: the event loop gets to each
FairFlight ==
    /\ SpecFlight
    /\ WF_vars(EmitChanged)
    /\ WF_vars(Delivered)
    /\ \A c \in Calls : WF_vars(Returned(c))

\* fileChanges grows at its end only
Appended == SubSeq(fileChanges', 1, Len(fileChanges)) = fileChanges

\* a batch is fired in this step
Fires == emitted = <<>> /\ emitted' # <<>>

\* invalidateTreeCache runs in this step
Invalidates == burst' # burst /\ burst' # "none"

\* C14: invalidations within one throttle interval produce one batch, fired
\* when the timer runs out and never by the invalidation itself; the batch
\* carries every event enqueued since the previous one in insertion order (or
\* the root event when there is none) and then the event of the raw-data
\* entry, the buffer is empty after it, and every invalidation is eventually
\* followed by a batch.
C14_ThrottledBatch ==
    /\ [][/\ Fires => /\ timer /\ ~timer'
                      /\ ~Invalidates
                      /\ burst # "none"
                      /\ emitted' = BatchOf(fileChanges)
                      /\ fileChanges' = <<>>
          /\ Invalidates => timer' /\ emitted' = <<>>
          /\ (timer /\ ~timer') => Fires
          /\ ~Fires => Appended]_vars
    /\ (burst # "none") ~> (emitted # <<>>)

\* one batch that answers several invalidations and carries the events of
\* both calls
C14_Witness ==
    /\ emitted # <<>>
    /\ burst = "several"
    /\ \E i, j \in DOMAIN emitted : emitted[i].id = 1 /\ emitted[j].id = 2 /\ i < j

\* the call of record cr copied the document of InitFlight for withSopsFile,
\* and the stable document has been overwritten since
Raced(cr) ==
    /\ cr.op \in Mutating /\ cr.passed
    /\ cr.temp.rev = 0
    /\ stable.rev > cr.nCommit

\* the call ended in an error though no sops invocation and no copy failed
Conflict(cr) ==
    /\ cr.pc = "done" /\ cr.err \notin {"", "IOError"}
    /\ ~cr.toolFailed

\* C18: when two mutating calls both copy the stable document before either
\* overwrites it, both complete without an error, and the stable document
\* ends as the private copy of the call that overwrote it last.
C18_LastWriterWins ==
    \A c \in Calls :
       /\ Raced(call[c]) => ~Conflict(call[c])
       /\ (Raced(call[c]) /\ call[c].pc = "done" /\ call[c].nCommit = 1
             /\ last.id = c) => stable.tree = call[c].temp.tree

\* C19: a mutating call overwrites the stable document, then invalidates the
\* snapshot, then enqueues its change events, then the batch is emitted: a
\* call has enqueued events only once it has invalidated, and no batch holds
\* an event of a call that has not overwritten the stable document.
C19_EventsAfterOverwrite ==
    \A c \in Calls :
       /\ call[c].pushed # <<>> => call[c].nInval > 0
       /\ \A i \in DOMAIN emitted :
             (emitted[i].id = c /\ call[c].id = c) => call[c].nCommit > 0

(***************************************************************************)
(* Reads while another program changes the document.  SpecWatch starts     *)
(* from an engine whose watcher exists, with or without a snapshot, in     *)
(* which two callers are about to read; the reads, the watcher, the timer  *)
(* and the other program take their steps in any order.                    *)
(***************************************************************************)
WatchCalls ==
    {NewCall("readFile", <<"a", "b">>, <<>>, <<>>, FALSE, FALSE),
     NewCall("readFile", <<dataFilename>>, <<>>, <<>>, FALSE, FALSE),
     NewCall("stat", <<"a">>, <<>>, <<>>, FALSE, FALSE)}

InitWatch ==
    /\ sopsName = <<"s", ".json">>
    /\ stable = InitDoc(sopsName)
    /\ cachedTree \in {NoSnap, SnapshotOf(stable)}
    /\ fileChanges = <<>>
    /\ timer = FALSE
    /\ emitted = <<>>
    /\ watcher = TRUE
    /\ watchPending = FALSE
    /\ last = NoLast
    /\ spent = 0
    /\ call \in [Calls -> WatchCalls]
    /\ burst = "none"
    /\ registry = Standalone

NextWatch ==
    \/ \E c \in Calls : Enter(c)
    \/ \E c \in Calls : Load(c)
    \/ \E c \in Calls : Returned(c)
    \/ EmitChanged
    \/ Delivered
    \/ WatcherEvent
    \/ ExternalChange

SpecWatch == InitWatch /\ [][NextWatch]_vars

\* the read of record cr was made after the watcher reported the last change
\* of the stable document, and was given a snapshot
ReadSinceObserved(cr) ==
    /\ cr.op \in {"stat", "readFile"} /\ cr.pc = "done"
    /\ ~cr.disturbed /\ ~watchPending
    /\ cr.seen # NoSnap

\* C20: once the watcher has reported a change made by another program, the
\* cached snapshot is gone and the next access reads and decrypts the stable
\* document again: a read made after the report is given the snapshot of the
\* stable document as it is.
C20_ObservedChangeRereads ==
    \A c \in Calls :
       ReadSinceObserved(call[c]) => call[c].seen = SnapshotOf(stable)

(***************************************************************************)
(* The provider over the engines.  Text is the sequence of its code        *)
(* points; the addresses are ASCII, so the bytes of their UTF-8 encoding   *)
(* are their code points.                                                  *)
(***************************************************************************)
\* a vscode.Uri
Uri(scheme, authority, path, query, fragment) ==
    [scheme |-> scheme, authority |-> authority, path |-> path, query |-> query,
     fragment |-> fragment]

\* "/"
Slash == 47

\* the longest prefix of text with no code point of stops in it
RECURSIVE Upto(_, _)
Upto(text, stops) ==
    IF text = <<>> \/ Head(text) \in stops THEN <<>>
    ELSE <<Head(text)>> \o Upto(Tail(text), stops)

\* text without its first n code points
Drop(text, n) == SubSeq(text, n + 1, Len(text))

HexDigits == <<48, 49, 50, 51, 52, 53, 54, 55, 56, 57, 65, 66, 67, 68, 69, 70>>
HexValue(c) ==
    IF c >= 97 THEN c - 87 ELSE IF c >= 65 THEN c - 55 ELSE c - 48
IsHex(c) ==
    \/ c >= 48 /\ c <= 57
    \/ c >= 65 /\ c <= 70
    \/ c >= 97 /\ c <= 102

IsUnreserved(c) ==
    \/ c >= 97 /\ c <= 122
    \/ c >= 65 /\ c <= 90
    \/ c >= 48 /\ c <= 57
    \/ c \in {45, 46, 95, 126}

\* Uri.toString's encoding of a component: unreserved characters (and the
\* slashes of a path) as they are, any other as %XX
RECURSIVE encodeURIComponentFast(_, _)
encodeURIComponentFast(text, isPath) ==
    IF text = <<>> THEN <<>>
    ELSE LET c == Head(text) IN
         (IF IsUnreserved(c) \/ (isPath /\ c = Slash) THEN <<c>>
          ELSE <<37, HexDigits[(c \div 16) + 1], HexDigits[(c % 16) + 1]>>)
         \o encodeURIComponentFast(Tail(text), isPath)

\* Uri.parse's decoding of a component
RECURSIVE percentDecode(_)
percentDecode(text) ==
    IF text = <<>> THEN <<>>
    ELSE IF Head(text) = 37 /\ Len(text) >= 3 /\ IsHex(text[2]) /\ IsHex(text[3])
    THEN <<16 * HexValue(text[2]) + HexValue(text[3])>> \o percentDecode(Drop(text, 3))
    ELSE <<Head(text)>> \o percentDecode(Tail(text))

ToLower(c) == IF c >= 65 /\ c <= 90 THEN c + 32 ELSE c
LowerCase(text) == [i \in DOMAIN text |-> ToLower(text[i])]

\* Uri.toString lower-cases the drive letter of /C:/x and of C:/x
DriveLowered(path) ==
    IF Len(path) >= 3 /\ path[1] = Slash /\ path[3] = 58
    THEN [path EXCEPT ![2] = ToLower(@)]
    ELSE IF Len(path) >= 2 /\ path[2] = 58
    THEN [path EXCEPT ![1] = ToLower(@)]
    ELSE path

\* uri.toString()
UriToString(uri) ==
    (IF uri.scheme # <<>> THEN uri.scheme \o <<58>> ELSE <<>>)
    \o (IF uri.authority # <<>> \/ uri.scheme = <<102, 105, 108, 101>>
        THEN <<Slash, Slash>> ELSE <<>>)
    \o encodeURIComponentFast(LowerCase(uri.authority), FALSE)
    \o encodeURIComponentFast(DriveLowered(uri.path), TRUE)
    \o (IF uri.query # <<>> THEN <<63>> \o encodeURIComponentFast(uri.query, FALSE)
        ELSE <<>>)
    \o (IF uri.fragment # <<>> THEN <<35>> \o encodeURIComponentFast(uri.fragment, FALSE)
        ELSE <<>>)

\* vscode.Uri.parse(text)
UriParse(text) ==
    LET run == Upto(text, {58, Slash, 63, 35})
        hasScheme == run # <<>> /\ Len(text) > Len(run) /\ text[Len(run) + 1] = 58
        afterScheme == IF hasScheme THEN Drop(text, Len(run) + 1) ELSE text
        hasAuthority == Len(afterScheme) >= 2 /\ afterScheme[1] = Slash
                        /\ afterScheme[2] = Slash
        authority == IF hasAuthority THEN Upto(Drop(afterScheme, 2), {Slash, 63, 35})
                     ELSE <<>>
        afterAuthority == IF hasAuthority THEN Drop(afterScheme, 2 + Len(authority))
                          ELSE afterScheme
        path == Upto(afterAuthority, {63, 35})
        afterPath == Drop(afterAuthority, Len(path))
        hasQuery == afterPath # <<>> /\ Head(afterPath) = 63
        query == IF hasQuery THEN Upto(Tail(afterPath), {35}) ELSE <<>>
        afterQuery == IF hasQuery THEN Drop(afterPath, 1 + Len(query)) ELSE afterPath
        fragment == IF afterQuery # <<>> THEN Tail(afterQuery) ELSE <<>>
        scheme == IF hasScheme THEN run ELSE <<102, 105, 108, 101>>
        decoded == percentDecode(path)
    IN Uri(scheme, percentDecode(authority),
           IF scheme = <<102, 105, 108, 101>> /\ (decoded = <<>> \/ Head(decoded) # Slash)
           THEN <<Slash>> \o decoded ELSE decoded,
           percentDecode(query), percentDecode(fragment))

\* the base64url alphabet: A-Z a-z 0-9 - _
Base64UrlAlphabet ==
    [i \in 1..64 |->
       IF i <= 26 THEN 64 + i
       ELSE IF i <= 52 THEN 70 + i
       ELSE IF i <= 62 THEN i - 5
       ELSE IF i = 63 THEN 45 ELSE 95]

\* buffer.toString("base64url"): three bytes to four characters, no padding
RECURSIVE ToBase64Url(_)
ToBase64Url(bytes) ==
    IF bytes = <<>> THEN <<>>
    ELSE IF Len(bytes) = 1
    THEN <<Base64UrlAlphabet[(bytes[1] \div 4) + 1],
           Base64UrlAlphabet[((bytes[1] % 4) * 16) + 1]>>
    ELSE IF Len(bytes) = 2
    THEN <<Base64UrlAlphabet[(bytes[1] \div 4) + 1],
           Base64UrlAlphabet[((bytes[1] % 4) * 16) + (bytes[2] \div 16) + 1],
           Base64UrlAlphabet[((bytes[2] % 16) * 4) + 1]>>
    ELSE <<Base64UrlAlphabet[(bytes[1] \div 4) + 1],
           Base64UrlAlphabet[((bytes[1] % 4) * 16) + (bytes[2] \div 16) + 1],
           Base64UrlAlphabet[((bytes[2] % 16) * 4) + (bytes[3] \div 64) + 1],
           Base64UrlAlphabet[(bytes[3] % 64) + 1]>>
         \o ToBase64Url(Drop(bytes, 3))

\* the six bits of a character of the alphabet (or of base64's: + and /)
Sextet(c) ==
    IF c >= 97 THEN c - 71
    ELSE IF c >= 65 /\ c <= 90 THEN c - 65
    ELSE IF c >= 48 /\ c <= 57 THEN c + 4
    ELSE IF c \in {45, 43} THEN 62
    ELSE 63

\* Buffer.from(text, "base64url")
RECURSIVE FromBase64Url(_)
FromBase64Url(text) ==
    IF Len(text) < 2 THEN <<>>
    ELSE LET b1 == (Sextet(text[1]) * 4) + (Sextet(text[2]) \div 16) IN
         IF Len(text) = 2 THEN <<b1>>
         ELSE LET b2 == ((Sextet(text[2]) % 16) * 16) + (Sextet(text[3]) \div 4) IN
              IF Len(text) = 3 THEN <<b1, b2>>
              ELSE <<b1, b2, ((Sextet(text[3]) % 4) * 64) + Sextet(text[4])>>
                   \o FromBase64Url(Drop(text, 4))

\* text.split("/").filter((i) => !!i)
RECURSIVE SplitPath(_)
SplitPath(text) ==
    IF text = <<>> THEN <<>>
    ELSE IF Head(text) = Slash THEN SplitPath(Tail(text))
    ELSE LET seg == Upto(text, {Slash}) IN <<seg>> \o SplitPath(Drop(text, Len(seg)))

\* "/" + paths.join("/")
RECURSIVE JoinPath(_)
JoinPath(paths) ==
    IF paths = <<>> THEN <<>>
    ELSE Head(paths) \o (IF Len(paths) > 1 THEN <<Slash>> ELSE <<>>) \o JoinPath(Tail(paths))

SopsScheme == <<115, 111, 112, 115>>

\* parseUri; ok FALSE: it throws FileNotFound
parseUri(uri) ==
    LET paths == SplitPath(uri.path) IN
    IF paths = <<>>
    THEN [ok |-> FALSE, sopsFile |-> Uri(<<>>, <<>>, <<>>, <<>>, <<>>), fsUri |-> uri]
    ELSE [ok |-> TRUE,
          sopsFile |-> UriParse(FromBase64Url(Head(paths))),
          fsUri |-> [uri EXCEPT !.path = <<Slash>> \o JoinPath(Tail(paths))]]

\* composeUri with the base64 alphabet: C15 must fail with it
composeUriBase64(sopsFile, path) ==
    LET text == ToBase64Url(UriToString(sopsFile)) IN
    Uri(SopsScheme, <<>>,
        [i \in DOMAIN text |->
           IF text[i] = 45 THEN 43 ELSE IF text[i] = 95 THEN Slash ELSE text[i]]
        \o path, <<>>, <<>>)

\* SopsFsProvider.composeUri; path <<>>: none given
composeUri(sopsFile, path) ==
    Uri(SopsScheme, <<>>, ToBase64Url(UriToString(sopsFile)) \o path, <<>>, <<>>)

\* fsCache's max
max == 64

FileScheme == <<102, 105, 108, 101>>

\* file:///d/00, file:///d/01, ...: the documents one provider may have open
DocUri(n) ==
    Uri(FileScheme, <<>>, <<Slash, 100, Slash, 48 + (n \div 10), 48 + (n % 10)>>,
        <<>>, <<>>)
\* file:///w/s~.yaml
HomeDoc ==
    Uri(FileScheme, <<>>, <<47, 119, 47, 115, 126, 46, 121, 97, 109, 108>>, <<>>, <<>>)
\* the path /C:/o with the query .env
DriveDoc == Uri(FileScheme, <<>>, <<47, 67, 58, 47, 111>>, <<46, 101, 110, 118>>, <<>>)

\* the documents the calls address: one registered longest ago and two that
\* are not registered; the paths in them: none, /a/b, /n
ActiveDocs == {HomeDoc, DriveDoc, DocUri(1)}
SubPath == <<47, 97, 47, 98>>
\* /n
NewPath == <<47, 110>>

(***************************************************************************)
(* An engine as the provider sees it.  sopsFile: the document it was made  *)
(* for.  state: "new" while the provider awaits its first stat, "cached"   *)
(* while fsCache holds it, "disposed" after the dispose of fsCache ran on  *)
(* it.  listening: the provider's listener is on its onDidChangeFile.      *)
(* changes, pending: its fileChanges (the paths) and whether its throttle  *)
(* timer is armed.  nCalls, nCommit: the methods called on it and its      *)
(* overwrites of the document.  lost: it fired a batch nobody listened to. *)
(***************************************************************************)
NewEngine(sopsFile) ==
    [sopsFile |-> sopsFile, state |-> "new", listening |-> FALSE, changes |-> <<>>,
     pending |-> FALSE, nCalls |-> 1, nCommit |-> 0, lost |-> FALSE]

\* a call on the provider: uri, uri2 its addresses, doc, sub, doc2, sub2 what
\* they were composed from, key, fsPath, fsPath2 what parseUri made of them,
\* fs the engine getOrOpenFs gave it
IdleProviderCall ==
    [op |-> "none", pc |-> "idle", uri |-> Uri(<<>>, <<>>, <<>>, <<>>, <<>>),
     uri2 |-> Uri(<<>>, <<>>, <<>>, <<>>, <<>>),
     doc |-> Uri(<<>>, <<>>, <<>>, <<>>, <<>>), sub |-> <<>>,
     doc2 |-> Uri(<<>>, <<>>, <<>>, <<>>, <<>>), sub2 |-> <<>>,
     key |-> <<>>, fsPath |-> <<>>, fsPath2 |-> <<>>, fs |-> 0, err |-> ""]

\* the provider after n documents were opened, the first of them longest
\* ago; pending: the watcher of that one has reported a change since
Filled(n, pending) ==
    [fsCache |-> [i \in 1..n |->
                    [key |-> UriToString(parseUri(composeUri(DocUri(i), <<>>)).sopsFile),
                     fs |-> i]],
     engines |-> [i \in 1..n |->
                    [NewEngine(parseUri(composeUri(DocUri(i), <<>>)).sopsFile)
                       EXCEPT !.state = "cached", !.listening = TRUE,
                              !.pending = (pending /\ i = 1)]],
     calls |-> [c \in Calls |-> IdleProviderCall],
     fired |-> <<>>,
     spent |-> 0]

\* the position of key in fsCache, 0 when it has none
CacheIndex(cache, key) ==
    IF \E i \in DOMAIN cache : cache[i].key = key
    THEN CHOOSE i \in DOMAIN cache : cache[i].key = key
    ELSE 0

Without(seq, i) == SubSeq(seq, 1, i - 1) \o SubSeq(seq, i + 1, Len(seq))

\* the dispose of fsCache that leaves the engine as it is: C17 must fail with it
DroppedNot(engine) == engine

\* the dispose of fsCache: listener.dispose(), fs.dispose()
Dropped(engine) == [engine EXCEPT !.state = "disposed", !.listening = FALSE]

\* the listener attached and fsCache.set(uriKey, [fs, listener]): the entry
\* becomes the most recently used one; a value the key had, or else the least
\* recently used entry of a full cache, is disposed of
CacheSet(reg, key, fs) ==
    LET i == CacheIndex(reg.fsCache, key)
        entry == [key |-> key, fs |-> fs]
        listened == [reg.engines EXCEPT ![fs].state = "cached", ![fs].listening = TRUE]
    IN IF i # 0
       THEN [reg EXCEPT !.fsCache = Without(@, i) \o <<entry>>,
                        !.engines = [listened EXCEPT ![reg.fsCache[i].fs] = Dropped(@)]]
       ELSE IF Len(reg.fsCache) >= max
       THEN [reg EXCEPT !.fsCache = Tail(@) \o <<entry>>,
                        !.engines = [listened EXCEPT
                                       ![Head(reg.fsCache).fs] = Dropped(@)]]
       ELSE [reg EXCEPT !.fsCache = Append(@, entry), !.engines = listened]

engineVars == <<sopsName, stable, cachedTree, fileChanges, timer, emitted, watcher,
                watchPending, call, last, spent, burst>>

\* a call that ended hands its result over, and a batch the provider fired
\* goes to its listeners, before anything else runs
Calm ==
    /\ registry.fired = <<>>
    /\ \A c \in Calls : registry.calls[c].pc # "done"

MayCall(c) ==
    /\ Calm
    /\ registry.calls[c].pc = "idle"
    /\ registry.spent < MaxCalls

\* the addresses the host passes: composed ones, and sops:/
Addressed(op, doc, sub, doc2, sub2) ==
    [IdleProviderCall EXCEPT !.op = op, !.uri = composeUri(doc, sub),
                             !.uri2 = composeUri(doc2, sub2),
                             !.doc = doc, !.sub = sub, !.doc2 = doc2, !.sub2 = sub2]
Unaddressed(op) ==
    [IdleProviderCall EXCEPT !.op = op, !.uri = Uri(SopsScheme, <<>>, <<Slash>>, <<>>, <<>>)]

ThrowFrom(rec, e) == [rec EXCEPT !.pc = "done", !.err = e]

\* getOrOpenFs up to its await: the engine of the cache, which the call then
\* uses, or a new one and its stat of the root
getOrOpenFs(c, rec, parsed) ==
    LET key == UriToString(parsed.sopsFile)
        i == CacheIndex(registry.fsCache, key)
        found == [rec EXCEPT !.key = key, !.fsPath = parsed.fsUri.path]
    IN IF i # 0
       THEN registry' =
              [registry EXCEPT
                 !.fsCache = Without(@, i) \o <<registry.fsCache[i]>>,
                 !.engines[registry.fsCache[i].fs].nCalls = @ + 1,
                 !.calls[c] = [found EXCEPT !.pc = "call", !.fs = registry.fsCache[i].fs],
                 !.spent = @ + 1]
       ELSE registry' =
              [registry EXCEPT
                 !.engines = Append(@, NewEngine(parsed.sopsFile)),
                 !.calls[c] = [found EXCEPT !.pc = "open",
                                            !.fs = Len(registry.engines) + 1],
                 !.spent = @ + 1]

\* stat, readDirectory, readFile: a call that changes nothing
ProviderStat(c) ==
    /\ MayCall(c)
    /\ UNCHANGED engineVars
    /\ \E rec \in {Addressed("stat", doc, <<>>, doc, <<>>) : doc \in {HomeDoc, DocUri(1)}}
                   \cup {Unaddressed("stat")} :
          LET parsed == parseUri(rec.uri) IN
          IF ~parsed.ok
          THEN registry' = [registry EXCEPT !.calls[c] = ThrowFrom(rec, "FileNotFound"),
                                            !.spent = @ + 1]
          ELSE getOrOpenFs(c, rec, parsed)

\* createDirectory, writeFile, delete: a call that changes the document
ProviderWriteFile(c) ==
    /\ MayCall(c)
    /\ UNCHANGED engineVars
    /\ \E rec \in {Addressed("writeFile", doc, SubPath, doc, <<>>) :
                     doc \in {HomeDoc, DriveDoc}} :
          getOrOpenFs(c, rec, parseUri(rec.uri))

\* the check of rename that lets every pair of addresses through: C16 must
\* fail with it
SameSopsFileAlways(oldSops, newSops) == TRUE

\* oldSops.toString() === newSops.toString()
SameSopsFile(oldSops, newSops) == UriToString(oldSops) = UriToString(newSops)

ProviderRename(c) ==
    /\ MayCall(c)
    /\ UNCHANGED engineVars
    /\ \E doc \in ActiveDocs :
          LET rec == Addressed("rename", doc, SubPath, HomeDoc, NewPath)
              old == parseUri(rec.uri)
              new == parseUri(rec.uri2)
          IN IF ~SameSopsFile(old.sopsFile, new.sopsFile)
             THEN registry' = [registry EXCEPT !.calls[c] = ThrowFrom(rec, "Error"),
                                               !.spent = @ + 1]
             ELSE getOrOpenFs(c, [rec EXCEPT !.fsPath2 = new.fsUri.path], old)

\* the stat of a new engine's root settles and the engine is registered
\* whether it failed or not: C21 must fail with it
ProviderOpenedRegistering(c) ==
    /\ Calm
    /\ UNCHANGED engineVars
    /\ registry.calls[c].pc = "open"
    /\ \E ok \in BOOLEAN :
          LET rec == registry.calls[c]
              set == CacheSet(registry, rec.key, rec.fs)
          IN IF ~ok
             THEN registry' = [set EXCEPT !.calls[c] = ThrowFrom(rec, "FileNotFound")]
             ELSE registry' = [set EXCEPT !.engines[rec.fs].nCalls = @ + 1,
                                          !.calls[c].pc = "call"]

\* the stat of a new engine's root settles; ok: the engine is registered
ProviderOpened(c) ==
    /\ Calm
    /\ UNCHANGED engineVars
    /\ registry.calls[c].pc = "open"
    /\ \E ok \in BOOLEAN :
          LET rec == registry.calls[c] IN
          IF ~ok
          THEN registry' = [registry EXCEPT !.calls[c] = ThrowFrom(rec, "FileNotFound")]
          ELSE registry' = [CacheSet(registry, rec.key, rec.fs) EXCEPT
                              !.engines[rec.fs].nCalls = @ + 1,
                              !.calls[c].pc = "call"]

\* the paths of the events a call pushes in its engine
PushedBy(rec) ==
    CASE rec.op = "writeFile" -> <<rec.fsPath>>
      [] rec.op = "rename" -> <<rec.fsPath, rec.fsPath2>>
      [] OTHER -> <<>>

\* the method called on the engine settles; when it overwrote the document
\* the engine's timer is armed, and so are, by their watchers, those of the
\* other engines on that document
ProviderCalled(c) ==
    /\ Calm
    /\ UNCHANGED engineVars
    /\ registry.calls[c].pc = "call"
    /\ \E ok \in BOOLEAN :
          LET rec == registry.calls[c] IN
          IF ~ok
          THEN registry' = [registry EXCEPT !.calls[c] = ThrowFrom(rec, "FileNotFound")]
          ELSE registry' =
                 [registry EXCEPT
                    !.calls[c].pc = "done",
                    !.engines =
                       [e \in DOMAIN registry.engines |->
                          IF rec.op = "stat" THEN registry.engines[e]
                          ELSE IF e = rec.fs
                          THEN [registry.engines[e] EXCEPT
                                  !.changes = @ \o PushedBy(rec),
                                  !.pending = TRUE, !.nCommit = @ + 1]
                          ELSE IF /\ registry.engines[e].state = "cached"
                                  /\ UriToString(registry.engines[e].sopsFile) = rec.key
                          THEN [registry.engines[e] EXCEPT !.pending = TRUE]
                          ELSE registry.engines[e]]]

\* the engines there can be: each call makes one at most
EngineIds == 1..(max + MaxCalls)

\* an engine's timer runs out: its batch, which the provider's listener, if
\* it is still there, fires again under the provider's addresses
EngineFired(e) ==
    /\ Calm
    /\ UNCHANGED engineVars
    /\ e \in DOMAIN registry.engines
    /\ registry.engines[e].pending
    /\ LET engine == registry.engines[e]
           paths == IF engine.changes = <<>> THEN <<<<Slash>>>> ELSE engine.changes
       IN registry' =
            [registry EXCEPT
               !.engines[e] = [@ EXCEPT !.pending = FALSE, !.changes = <<>>,
                                        !.lost = (@ \/ ~engine.listening)],
               !.fired = IF engine.listening
                         THEN [i \in DOMAIN paths |->
                                 [uri |-> composeUri(engine.sopsFile, paths[i]),
                                  path |-> paths[i], from |-> e]]
                         ELSE <<>>]

\* the listeners of the provider's onDidChangeFile have run
ProviderDelivered ==
    /\ registry.fired # <<>>
    /\ UNCHANGED engineVars
    /\ registry' = [registry EXCEPT !.fired = <<>>]

\* the call hands its result to its caller
ProviderReturned(c) ==
    /\ registry.calls[c].pc = "done"
    /\ UNCHANGED engineVars
    /\ registry' = [registry EXCEPT !.calls[c] = IdleProviderCall]

InitRegistry ==
    /\ sopsName = <<"s", ".json">>
    /\ stable = InitDoc(sopsName)
    /\ cachedTree = NoSnap
    /\ fileChanges = <<>>
    /\ timer = FALSE
    /\ emitted = <<>>
    /\ watcher = FALSE
    /\ watchPending = FALSE
    /\ call = [c \in Calls |-> IdleCall]
    /\ last = NoLast
    /\ spent = 0
    /\ burst = "none"
    /\ registry \in {Filled(0, FALSE), Filled(max - 1, TRUE)}

NextRegistry ==
    \/ \E c \in Calls : ProviderStat(c)
    \/ \E c \in Calls : ProviderWriteFile(c)
    \/ \E c \in Calls : ProviderRename(c)
    \/ \E c \in Calls : ProviderOpened(c)
    \/ \E c \in Calls : ProviderCalled(c)
    \/ \E c \in Calls : ProviderReturned(c)
    \/ \E e \in EngineIds : EngineFired(e)
    \/ ProviderDelivered

SpecRegistry == InitRegistry /\ [][NextRegistry]_vars

\* the first segment of an address
FirstSegment(uri) == Head(SplitPath(uri.path))

\* parseUri(uri) gives the document doc and the path sub in it, the root
\* when sub is none
ParsesTo(uri, doc, sub) ==
    LET parsed == parseUri(uri) IN
    /\ parsed.ok
    /\ UriToString(parsed.sopsFile) = UriToString(doc)
    /\ parsed.fsUri.path = (IF sub = <<>> THEN <<Slash>> ELSE sub)

\* the calls on the provider whose addresses were composed
Composed == {c \in Calls : registry.calls[c].doc.scheme # <<>>}

\* C15: parsing the address composed from a document's identifier d and a
\* path s in it (none, or segments each led by a slash) yields d's
\* identifier string and s, the root when s is none; this holds of the
\* addresses the calls are made with and of those the provider puts on the
\* events it fires; two documents with different identifier strings never
\* compose to the same first segment.
C15_AddressRoundTrip ==
    /\ \A c \in Composed :
          LET rec == registry.calls[c] IN
          /\ ParsesTo(rec.uri, rec.doc, rec.sub)
          /\ ParsesTo(rec.uri2, rec.doc2, rec.sub2)
          /\ rec.pc \in {"open", "call"} =>
                /\ rec.key = UriToString(rec.doc)
                /\ rec.fsPath = (IF rec.sub = <<>> THEN <<Slash>> ELSE rec.sub)
    /\ \A i \in DOMAIN registry.fired :
          ParsesTo(registry.fired[i].uri,
                   registry.engines[registry.fired[i].from].sopsFile,
                   registry.fired[i].path)
    /\ \A c \in Composed :
          LET rec == registry.calls[c] IN
          UriToString(rec.doc) # UriToString(rec.doc2) =>
             FirstSegment(rec.uri) # FirstSegment(rec.uri2)

\* a call on a document whose encoded identifier has the last character of
\* the alphabet in it, and an event fired again for a path of the document
\* whose encoded identifier has the last but one
C15_Witness ==
    /\ \E c \in Composed :
          /\ registry.calls[c].pc = "call"
          /\ registry.calls[c].sub # <<>>
          /\ \E i \in DOMAIN FirstSegment(registry.calls[c].uri) :
                FirstSegment(registry.calls[c].uri)[i] = 95
    /\ \E i \in DOMAIN registry.fired :
          /\ registry.fired[i].path = SubPath
          /\ \E j \in DOMAIN FirstSegment(registry.fired[i].uri) :
                FirstSegment(registry.fired[i].uri)[j] = 45

\* the provider but for its calls
Held(reg) == [fsCache |-> reg.fsCache, engines |-> reg.engines, fired |-> reg.fired]

\* call c is made in this step, a rename between two documents
CrossRename(c) ==
    /\ registry.calls[c].pc = "idle"
    /\ registry'.calls[c].op = "rename"
    /\ UriToString(registry'.calls[c].doc) # UriToString(registry'.calls[c].doc2)

\* C16: a rename on the provider whose two addresses decode to different
\* documents ends with an error in the step it is made in: no engine is made,
\* looked up, called, registered or disposed of, no document is overwritten
\* and no event is pushed or fired.
C16_CrossRenameRejected ==
    [][\A c \in Calls :
          CrossRename(c) =>
             /\ registry'.calls[c].pc = "done"
             /\ registry'.calls[c].err = "Error"
             /\ registry'.calls[c].fs = 0
             /\ Held(registry') = Held(registry)]_vars

\* a rename from the document opened longest ago to another one, rejected
\* while the cache is one short of full
C16_Witness ==
    \E c \in Calls :
       /\ registry.calls[c].op = "rename" /\ registry.calls[c].pc = "done"
       /\ registry.calls[c].err = "Error"
       /\ registry.calls[c].doc = DocUri(1) /\ registry.calls[c].doc2 = HomeDoc
       /\ Len(registry.fsCache) = max - 1

\* the engines fsCache holds
InCache == {registry.fsCache[i].fs : i \in DOMAIN registry.fsCache}

\* C17: fsCache never holds more than max engines, and never two for one
\* key; an engine that was registered and is no longer in fsCache (evicted
\* as the least recently used, or replaced under its key) is disposed of and
\* has no listener of the provider, and no event the provider fires comes
\* from an engine that is not in fsCache.
C17_BoundedRegistry ==
    LET held == InCache
        keys == {registry.fsCache[i].key : i \in DOMAIN registry.fsCache}
    IN /\ Len(registry.fsCache) <= max
       /\ Cardinality(keys) = Len(registry.fsCache)
       /\ \A e \in DOMAIN registry.engines :
             LET engine == registry.engines[e] IN
             /\ e \in held <=> engine.state = "cached"
             /\ engine.listening <=> engine.state = "cached"
       /\ \A i \in DOMAIN registry.fired : registry.fired[i].from \in held

\* a full cache and the engine evicted from it, whose batch went to nobody
C17_Witness ==
    /\ Len(registry.fsCache) = max
    /\ registry.engines[1].state = "disposed"
    /\ registry.engines[1].lost

\* call c has its first stat of a new engine fail in this step
OpenFails(c) ==
    /\ registry.calls[c].pc = "open"
    /\ registry'.calls[c].pc = "done"

\* call c is made in this step and goes on to getOrOpenFs
Refers(c) ==
    /\ registry.calls[c].pc = "idle"
    /\ registry'.calls[c].pc \in {"open", "call"}

\* C21: a call on a document fsCache has no engine for makes a new engine and
\* awaits its stat of the root; when that stat fails the call ends with the
\* error, fsCache, the engines and what the provider fired stay as they are,
\* and the engine is left unregistered with no listener on it, so that the
\* next call on the document makes an engine again.
C21_FailFast ==
    [][\A c \in Calls :
          /\ OpenFails(c) =>
                /\ registry'.calls[c].err # ""
                /\ Held(registry') = Held(registry)
                /\ registry'.engines[registry.calls[c].fs].state = "new"
                /\ ~registry'.engines[registry.calls[c].fs].listening
                /\ CacheIndex(registry'.fsCache, registry.calls[c].key) =
                      CacheIndex(registry.fsCache, registry.calls[c].key)
          /\ Refers(c) =>
                LET rec == registry'.calls[c] IN
                /\ rec.pc = "open" <=> CacheIndex(registry.fsCache, rec.key) = 0
                /\ rec.pc = "open" =>
                      /\ rec.fs = Len(registry.engines) + 1
                      /\ registry'.engines = Append(registry.engines,
                                                    NewEngine(parseUri(rec.uri).sopsFile))
                      /\ registry'.fsCache = registry.fsCache]_vars

\* a call awaits the stat of the second engine made for a document: the first
\* one was left unregistered when its stat failed, and no other call runs
C21_Witness ==
    \E c \in Calls :
       /\ registry.calls[c].pc = "open"
       /\ \A d \in Calls \ {c} : registry.calls[d].pc = "idle"
       /\ \E e \in DOMAIN registry.engines :
             /\ e # registry.calls[c].fs
             /\ registry.engines[e].state = "new"
             /\ UriToString(registry.engines[e].sopsFile) = registry.calls[c].key

\* the call is in the callback of withSopsFile
InSopsFileTask(cr) ==
    \/ cr.pc \in {"set", "set2", "edit", "strip", "commit", "inval"}
    \/ cr.pc = "load" /\ cr.ret \in {"set", "set2"}

\* C22: the temporary files of a call (of getTree's load, of withSopsFile, of
\* sopsCmdWrite) are gone when the call has settled, however it settled; while
\* it runs the only one that outlives a step is the private copy of
\* withSopsFile, which is there exactly while the call is in its callback.
C22_TemporaryFilesScoped ==
    \A c \in Calls :
       /\ call[c].pc \in {"idle", "done"} => call[c].temps = {}
       /\ call[c].temps = (IF InSopsFileTask(call[c]) THEN {"sopsTemp"} ELSE {})

\* a write to the raw-data entry whose editor run failed, with the private
\* copy and the payload both in temporary files; the snapshot was loaded first
C22_Witness ==
    /\ call[1].pc = "done" /\ call[1].op = "writeFile"
    /\ isDataFile(call[1].path, dataFilename)
    /\ call[1].err = "ToolFailure"
    /\ call[1].passed /\ call[1].nTool = 1 /\ call[1].nDecrypt = 1

(***************************************************************************)
(* Calls that set a value at a path with index-like segments, on documents *)
(* with arrays in them.                                                    *)
(***************************************************************************)
\* {"a": [["q"]]}
DocNest == JObj(<<Mem("a", JArr(<<Mem("", JArr(<<Mem("", JStr(<<113>>))>>))>>))>>)

IndexKeys == {"0", "1", "2", "10", "01", "-1", "1.0", "-0", "+1", " 1", "b", "c"}

\* the paths set: under an array, an object, a string, a number, nothing,
\* and at the root
IndexPaths ==
    UNION {{<<"a", k>>, <<"a", "1", k>>, <<"a", "0", k>>, <<"n", k>>, <<"x", k>>, <<k>>} :
             k \in IndexKeys}

PathCalls ==
    {FlightCall(1, "createDirectory", path, <<>>, <<>>, FALSE) : path \in IndexPaths}
    \cup {FlightCall(1, "writeFile", <<"a", k>>, <<>>, <<118>>, TRUE) : k \in IndexKeys}

InitPath ==
    /\ sopsName = <<"s", ".json">>
    /\ stable \in {DocFile(TRUE, TRUE, tree, <<>>, 0) : tree \in {DocArr, DocNest}}
    /\ cachedTree \in {NoSnap, SnapshotOf(stable)}
    /\ fileChanges = <<>>
    /\ timer = FALSE
    /\ emitted = <<>>
    /\ watcher = FALSE
    /\ watchPending = FALSE
    /\ last = NoLast
    /\ spent = 0
    /\ call \in [Calls -> PathCalls \cup {IdleCall}]
    /\ call[1] \in PathCalls
    /\ \A c \in Calls \ {1} : call[c] = IdleCall
    /\ burst = "none"
    /\ registry = Standalone

NextPath ==
    \/ \E c \in Calls : Enter(c)
    \/ \E c \in Calls : Load(c)
    \/ \E c \in Calls : Set(c)
    \/ \E c \in Calls : Commit(c)
    \/ \E c \in Calls : Invalidate(c)
    \/ \E c \in Calls : Returned(c)
    \/ EmitChanged
    \/ Delivered
    \/ WatcherEvent

SpecPath == InitPath /\ [][NextPath]_vars

\* the characters of a segment
SegmentChars(key) ==
    CASE key = "0" -> <<48>>
      [] key = "1" -> <<49>>
      [] key = "2" -> <<50>>
      [] key = "10" -> <<49, 48>>
      [] key = "01" -> <<48, 49>>
      [] key = "-1" -> <<45, 49>>
      [] key = "1.0" -> <<49, 46, 48>>
      [] key = "-0" -> <<45, 48>>
      [] key = "+1" -> <<43, 49>>
      [] key = " 1" -> <<32, 49>>
      [] key = "a" -> <<97>>
      [] key = "b" -> <<98>>
      [] key = "c" -> <<99>>
      [] key = "n" -> <<110>>
      [] key = "x" -> <<120>>

\* the canonical decimal string of a non-negative integer: digits only, no
\* leading zero but for "0" itself
CanonicalDecimal(chars) ==
    /\ chars # <<>>
    /\ \A i \in DOMAIN chars : chars[i] \in 48..57
    /\ Len(chars) > 1 => chars[1] # 48

RECURSIVE DecimalValue(_)
DecimalValue(chars) ==
    IF chars = <<>> THEN 0
    ELSE 10 * DecimalValue(SubSeq(chars, 1, Len(chars) - 1)) + (chars[Len(chars)] - 48)

\* the parent of segment i of path is an array of tree
UnderArray(path, tree, i) == objectPathGet(tree, SubSeq(path, 1, i - 1)).t = "arr"

\* every segment of path under an array of tree is a canonical index
Translatable(path, tree) ==
    \A i \in DOMAIN path : UnderArray(path, tree, i) => CanonicalDecimal(SegmentChars(path[i]))

\* [n] for a segment under an array, ["key"] for any other
Brackets(path, tree) ==
    [i \in DOMAIN path |->
       IF UnderArray(path, tree, i) THEN SetIdx(DecimalValue(SegmentChars(path[i])))
       ELSE SetKey(path[i])]

\* the call got as far as pathToSopsSetPath
CameToSetPath(cr) == cr.passed /\ (cr.err = "InvalidIndex" \/ cr.nTool >= 1)

\* C23: pathToSopsSetPath accepts a path iff each of its segments whose
\* parent in the tree is an array is the canonical decimal string of a
\* non-negative integer, and then gives [n] for such a segment and ["key"]
\* for every other one (the parent an object, a scalar or nothing), in the
\* order of the path; a call whose path it does not accept ends with the
\* 'not a valid array index' error with no sops --set made and the document
\* as it was.
C23_PathTranslator ==
    \A c \in Calls :
       LET cr == call[c]
           tree == cr.stable0.tree
           out == pathToSopsSetPath(cr.path, tree)
       IN cr.op # "none" =>
            /\ out.ok <=> Translatable(cr.path, tree)
            /\ out.ok => out.p = Brackets(cr.path, tree)
            /\ cr.pc = "done" /\ CameToSetPath(cr) => (cr.err = "InvalidIndex" <=> ~out.ok)
            /\ cr.pc = "done" /\ cr.err = "InvalidIndex" =>
                  /\ cr.nTool = 0 /\ cr.nCommit = 0
                  /\ stable = cr.stable0

\* C23 as stated: the rejection comes before any run of sops.
C23_RejectedBeforeAnyTool ==
    \A c \in Calls :
       call[c].pc = "done" /\ call[c].err = "InvalidIndex" =>
          call[c].nTool = 0 /\ call[c].nDecrypt = 0

\* a write at ["a"]["01"] under the array a, rejected after the snapshot was
\* loaded for its lookups
C23_Witness ==
    /\ call[1].pc = "done" /\ call[1].op = "writeFile"
    /\ call[1].path = <<"a", "01">>
    /\ call[1].err = "InvalidIndex"
    /\ call[1].nDecrypt = 1

(***************************************************************************)
(* deleteMarker on JSON texts with one entry, or none, holding the marker. *)
(* The provider's variable holds the text, the tree it was rendered from   *)
(* with that entry left out, and the text deleteMarker gave.               *)
(***************************************************************************)
\* the entries of a container of n entries, the one at pos holding the
\* marker (none when pos is 0) under key markerKey, the others "x" and 1
\* under a, b, c when keyed
MarkedEntries(keyed, n, pos, markerKey) ==
    [i \in 1..n |->
       Mem(IF ~keyed THEN "" ELSE IF i = pos THEN markerKey ELSE <<"a", "b", "c">>[i],
           IF i = pos THEN JStr(DELETED_MARKER)
           ELSE IF i % 2 = 1 THEN JStr(<<120>>) ELSE JNum(1))]

\* a container and the place of the marker in it; key "k": the key of the
\* place under a, b, c
Marked(keyed, n, pos, key) ==
    [v |-> Val(IF keyed THEN "obj" ELSE "arr", <<>>,
               MarkedEntries(keyed, n, pos,
                             IF key = "k" /\ pos > 0 THEN <<"a", "b", "c">>[pos]
                             ELSE key)),
     pos |-> pos]

\* objects and arrays of one to three entries with the marker first, in the
\* middle, last or alone, under a key of one letter or the empty key
MarkedContainers ==
    {Marked(TRUE, n, pos, key) : n \in 1..3, pos \in 1..3, key \in {"k", ""}}
    \cup {Marked(FALSE, n, pos, "") : n \in 1..3, pos \in 1..3}

\* the container without the entry that holds the marker
Stripped(mc) ==
    IF mc.pos = 0 THEN mc.v
    ELSE Val(mc.v.t, <<>>, SubSeq(mc.v.m, 1, mc.pos - 1)
                           \o SubSeq(mc.v.m, mc.pos + 1, Len(mc.v.m)))

\* the documents a container is in: alone, the only value, between two
\* values, or in an array
Wrapped(wrap, v) ==
    CASE wrap = "only" -> JObj(<<Mem("w", v)>>)
      [] wrap = "between" -> JObj(<<Mem("p", JStr(<<120>>)), Mem("w", v), Mem("q", JNum(1))>>)
      [] wrap = "element" -> JObj(<<Mem("w", JArr(<<Mem("", JNum(1)), Mem("", v)>>))>>)
      [] OTHER -> v

StripInput(wrap, mc) ==
    [text |-> RenderJson(Wrapped(wrap, mc.v)), expect |-> Wrapped(wrap, Stripped(mc)),
     marked |-> mc.pos # 0, key |-> IF mc.pos = 0 THEN "k" ELSE mc.v.m[mc.pos].k,
     array |-> mc.v.t = "arr", done |-> FALSE, out |-> <<>>]

StripInputs ==
    {StripInput(wrap, mc) :
       wrap \in {"only", "between", "element"},
       mc \in {m \in MarkedContainers : m.pos <= Len(m.v.m)}}
    \cup {StripInput("alone", mc) :
            mc \in {m \in MarkedContainers : m.pos <= Len(m.v.m) /\ m.v.t = "obj"}}
    \cup {StripInput(wrap, Marked(keyed, n, 0, "k")) :
            wrap \in {"only", "between"}, keyed \in BOOLEAN, n \in 1..3}

InitStrip ==
    /\ sopsName = <<"s", ".json">>
    /\ stable = InitDoc(sopsName)
    /\ cachedTree = NoSnap
    /\ fileChanges = <<>>
    /\ timer = FALSE
    /\ emitted = <<>>
    /\ watcher = FALSE
    /\ watchPending = FALSE
    /\ call = [c \in Calls |-> IdleCall]
    /\ last = NoLast
    /\ spent = 0
    /\ burst = "none"
    /\ registry \in StripInputs

\* deleteMarker(this.sopsFormat, content)
StripMarker ==
    /\ ~registry.done
    /\ registry' = [registry EXCEPT !.done = TRUE,
                                    !.out = deleteMarker(sopsFormat, registry.text).out]
    /\ UNCHANGED engineVars

NextStrip == StripMarker

SpecStrip == InitStrip /\ [][NextStrip]_vars

Settled ==
    /\ \A c \in Calls : call[c].pc \in {"idle", "done"}
    /\ ~watchPending

\* C25: when a call has overwritten the document and every call has
\* settled, the snapshot in cachedTree, if there is one, is that of the
\* document as it is now, so that a read that starts then is answered from
\* the content the overwrite left.
C25_NoStaleSnapshot ==
    (Settled /\ last # NoLast /\ cachedTree # NoSnap) => cachedTree = SnapshotOf(stable)

\* C26: a writeFile, delete or rename that ran sops on its private copy and
\* ended with an error without overwriting the document has pushed no change
\* event, and none of its making is pending or in the batch just fired.
C26_NoPhantomEvents ==
    \A c \in Calls :
       LET cr == call[c] IN
       (/\ cr.pc = "done" /\ cr.op \in {"writeFile", "delete", "rename"}
        /\ cr.err # "" /\ cr.nTool >= 1 /\ cr.nCommit = 0) =>
          /\ cr.pushed = <<>>
          /\ \A i \in DOMAIN fileChanges : fileChanges[i].id # cr.id
          /\ \A i \in DOMAIN emitted : emitted[i].id # cr.id

\* call c is past parseUri and has not settled
InFlight(c) == registry.calls[c].pc \in {"open", "call"}

\* C27: two calls on one document that are in flight together have the same
\* engine, and it is not disposed of while either of them has it.
C27_OneEnginePerDocument ==
    \A c, d \in Calls :
       (/\ c # d /\ InFlight(c) /\ InFlight(d)
        /\ registry.calls[c].key = registry.calls[d].key) =>
          /\ registry.calls[c].fs = registry.calls[d].fs
          /\ registry.engines[registry.calls[c].fs].state # "disposed"

\* C28: no call ends with the 'unreachable' error, neither that of rename
\* (no parsed tree after its checks) nor that of getTreeNode (a root that is
\* no directory).
C28_UnreachableNeverThrown ==
    \A c \in Calls : call[c].pc = "done" => call[c].err # "unreachable"

=============================================================================
